---- MODULE Spec2Model ----
(***************************************************************************)
(* Model of the mqtt-api ingestion service: the MQTT callback on_message   *)
(* with its two persistence functions (src/mqtt/client.py,                 *)
(* src/database.py), and the connection manager start_mqtt_client with     *)
(* the paho callbacks and publish (src/mqtt/client.py).                    *)
(*                                                                         *)
(* Texts are sequences of lexical tokens, so that decoding, json.loads and *)
(* json.dumps are real conversions: json.dumps(json.loads(s)) is computed, *)
(* not assumed equal to s.                                                 *)
(***************************************************************************)
EXTENDS Integers, Sequences, FiniteSets, TLC

VARIABLES
    raw_mqtt_data,      \* table raw_mqtt_data (DBRawMQTTData), in insertion order
    mediciones_data,    \* table mediciones_data (DBMedicionesData), in insertion order
    now,                \* the UTC clock read by datetime.utcnow(), in ticks
    last,               \* what the last on_message invocation did
    pc,                 \* start_mqtt_client: "idle", "loop", "returned"
    retry_count,        \* start_mqtt_client's local retry_count
    slept,              \* the time.sleep(wait_time) calls made so far, in order
    connects,           \* number of client.connect calls made so far
    result,             \* start_mqtt_client's return value: "none", "True", "False"
    loop_running,       \* whether the network loop thread of loop_start() runs
    session,            \* broker session as seen by the callbacks
    subscribes,         \* client.subscribe calls issued, in order
    acks,               \* number of connection acknowledgements delivered
    outbox,             \* messages handed to client.publish, in order
    lastPub,            \* what the last publish call did
    startup,            \* what the caller of start_mqtt_client did with its result
    pacientes,          \* table pacientes (DBPaciente), in insertion order
    alertas_data,       \* table alertas_data (DBAlertasData), in insertion order
    predicciones_data,  \* table predicciones_data (DBPrediccionesData), in insertion order
    reqs,               \* the crear_paciente requests in flight, by request
    resp,               \* the last response of the HTTP API
    stdout,             \* the lines printed by mqtt/client.py, for each value of MQTT_PASSWORD
    launch              \* AsyncMQTTAPIServer.start: the calls of start_mqtt_client it causes

ingestVars == <<raw_mqtt_data, mediciones_data, now, last>>
connVars == <<pc, retry_count, slept, connects, result, loop_running, session,
              subscribes, acks, outbox, lastPub>>
apiVars == <<pacientes, alertas_data, predicciones_data, reqs, resp>>
procVars == <<stdout, launch>>
vars == <<raw_mqtt_data, mediciones_data, now, last, pc, retry_count, slept, connects,
          result, loop_running, session, subscribes, acks, outbox, lastPub, startup,
          pacientes, alertas_data, predicciones_data, reqs, resp, stdout, launch>>

----------------------------------------------------------------------------
(* Bounds of the model *)

\* messages delivered to on_message in one behaviour
MaxMsgs == 2
\* connection acknowledgements delivered in one behaviour
MaxAcks == 2
\* publish calls in one behaviour
MaxPubs == 1
\* the tick of the clock when the service starts
ClockStart == 3
\* crear_paciente requests that may be in flight at the same time
MaxReqs == 2
\* rows a table holds at most in the behaviours of the query endpoints
MaxRows == 2
Requests == 1..MaxReqs

----------------------------------------------------------------------------
(* Python values.  Every value is a record of the same shape:               *)
(*   t: "str" | "int" | "bool" | "none" | "datetime" | "dict"               *)
(*   s: the string (t = "str"), n: the number, truth value or clock tick,   *)
(*   items: the insertion-ordered key/value pairs (t = "dict").             *)

PyStr(s) == [t |-> "str", s |-> s, n |-> 0, items |-> <<>>]
PyInt(n) == [t |-> "int", s |-> "", n |-> n, items |-> <<>>]
PyBool(b) == [t |-> "bool", s |-> "", n |-> IF b THEN 1 ELSE 0, items |-> <<>>]
PyNone == [t |-> "none", s |-> "", n |-> 0, items |-> <<>>]
PyDatetime(n) == [t |-> "datetime", s |-> "", n |-> n, items |-> <<>>]
PyDict(items) == [t |-> "dict", s |-> "", n |-> 0, items |-> items]

\* Python truthiness, as used by "if not identificador"
Truthy(v) ==
    CASE v.t = "none" -> FALSE
      [] v.t = "str" -> v.s # ""
      [] v.t = "int" -> v.n # 0
      [] v.t = "bool" -> v.n # 0
      [] v.t = "dict" -> v.items # <<>>
      [] OTHER -> TRUE

\* key in d
dict_has(d, key) == \E i \in 1..Len(d.items) : d.items[i].key = key

\* d.get(key, default)
dict_get(d, key, default) ==
    IF dict_has(d, key)
    THEN d.items[CHOOSE i \in 1..Len(d.items) : d.items[i].key = key].val
    ELSE default

\* d[key] = val: an existing key keeps its position, a new key goes last
dict_set(d, key, val) ==
    IF dict_has(d, key)
    THEN PyDict([i \in 1..Len(d.items) |->
                    IF d.items[i].key = key THEN [key |-> key, val |-> val]
                    ELSE d.items[i]])
    ELSE PyDict(Append(d.items, [key |-> key, val |-> val]))

----------------------------------------------------------------------------
(* Texts and byte strings: sequences of tokens [k, s, n].                   *)
(*   k = "punct": one of { } : ,      k = "ws": one blank                   *)
(*   k = "str": a JSON string literal with content s                        *)
(*   k = "num": an integer literal n  k = "lit": true, false or null        *)
(*   k = "junk": characters that start no JSON token                        *)
(*   k = "bad": a byte sequence that is not valid UTF-8 (byte strings only) *)

Punct(s) == [k |-> "punct", s |-> s, n |-> 0]
WS == [k |-> "ws", s |-> " ", n |-> 0]
StrTok(s) == [k |-> "str", s |-> s, n |-> 0]
NumTok(n) == [k |-> "num", s |-> "", n |-> n]
LitTok(s) == [k |-> "lit", s |-> s, n |-> 0]
JunkTok(s) == [k |-> "junk", s |-> s, n |-> 0]
BadByte == [k |-> "bad", s |-> "FF", n |-> 0]

\* bytes.decode('utf-8'): UnicodeDecodeError on any invalid sequence; the
\* valid (ASCII) tokens decode to themselves
decode_utf8(bytes) ==
    IF \E i \in 1..Len(bytes) : bytes[i].k = "bad"
    THEN [raised |-> TRUE, text |-> <<>>]
    ELSE [raised |-> FALSE, text |-> bytes]

\* bytes.decode('utf-8', errors='ignore'): invalid sequences are dropped
IsValidUtf8(tok) == tok.k # "bad"
decode_utf8_ignore(bytes) == SelectSeq(bytes, IsValidUtf8)

----------------------------------------------------------------------------
(* json.loads and json.dumps on flat documents: a scalar, or an object whose *)
(* values are scalars.                                                      *)

IsScalarTok(tok) == tok.k \in {"str", "num", "lit"}
NotWs(tok) == tok.k # "ws"

\* the Python value of a scalar token
ScalarOf(tok) ==
    CASE tok.k = "str" -> PyStr(tok.s)
      [] tok.k = "num" -> PyInt(tok.n)
      [] tok.k = "lit" /\ tok.s = "true" -> PyBool(TRUE)
      [] tok.k = "lit" /\ tok.s = "false" -> PyBool(FALSE)
      [] OTHER -> PyNone

\* the members of an object, between its braces, blanks removed:
\* string : scalar , string : scalar ...
MembersOk(inner) ==
    \/ Len(inner) = 0
    \/ /\ Len(inner) % 4 = 3
       /\ \A i \in 1..Len(inner) :
            CASE i % 4 = 1 -> inner[i].k = "str"
              [] i % 4 = 2 -> inner[i] = Punct(":")
              [] i % 4 = 3 -> IsScalarTok(inner[i])
              [] OTHER -> inner[i] = Punct(",")

RECURSIVE DictOfMembers(_, _)
\* the dict built from the first j members: a repeated key keeps its first
\* position and takes the last value
DictOfMembers(inner, j) ==
    IF j = 0 THEN PyDict(<<>>)
    ELSE dict_set(DictOfMembers(inner, j - 1), inner[4 * j - 3].s,
                  ScalarOf(inner[4 * j - 1]))

\* json.loads(text): [ok, value]; ok = FALSE is json.JSONDecodeError
json_loads(text) ==
    LET toks == SelectSeq(text, NotWs)
        n == Len(toks)
        inner == SubSeq(toks, 2, n - 1)
    IN  IF n = 1 /\ IsScalarTok(toks[1])
        THEN [ok |-> TRUE, value |-> ScalarOf(toks[1])]
        ELSE IF n >= 2 /\ toks[1] = Punct("{") /\ toks[n] = Punct("}")
                /\ MembersOk(inner)
        THEN [ok |-> TRUE, value |-> DictOfMembers(inner, (Len(inner) + 1) \div 4)]
        ELSE [ok |-> FALSE, value |-> PyNone]

\* the token json.dumps writes for a scalar
TokOf(v) ==
    CASE v.t = "str" -> StrTok(v.s)
      [] v.t = "int" -> NumTok(v.n)
      [] v.t = "bool" -> LitTok(IF v.n = 1 THEN "true" ELSE "false")
      [] OTHER -> LitTok("null")

RECURSIVE DumpMembers(_, _)
\* the first j members as json.dumps writes them: separators ", " and ": "
DumpMembers(items, j) ==
    IF j = 0 THEN <<>>
    ELSE (IF j = 1 THEN <<>> ELSE DumpMembers(items, j - 1) \o <<Punct(","), WS>>)
         \o <<StrTok(items[j].key), Punct(":"), WS, TokOf(items[j].val)>>

\* whether json.dumps can serialize v: a datetime is not JSON serializable
Serializable(v) ==
    /\ v.t # "datetime"
    /\ \A i \in 1..Len(v.items) : v.items[i].val.t # "datetime"

\* json.dumps(v): [ok, text]; ok = FALSE is TypeError
json_dumps(v) ==
    IF ~Serializable(v) THEN [ok |-> FALSE, text |-> <<>>]
    ELSE IF v.t = "dict"
    THEN [ok |-> TRUE,
          text |-> <<Punct("{")>> \o DumpMembers(v.items, Len(v.items)) \o <<Punct("}")>>]
    ELSE [ok |-> TRUE, text |-> <<TokOf(v)>>]

----------------------------------------------------------------------------
(* datetime: isoformat() and fromisoformat() over the ticks of the clock.   *)

\* the ISO-8601 text of each tick
IsoStrings ==
    <<"2024-01-01T00:00:00", "2024-01-01T00:00:01", "2024-01-01T00:00:02",
      "2024-01-01T00:00:03", "2024-01-01T00:00:04", "2024-01-01T00:00:05",
      "2024-01-01T00:00:06", "2024-01-01T00:00:07", "2024-01-01T00:00:08">>

\* datetime.isoformat()
isoformat(tick) == IsoStrings[tick]

\* whether datetime.fromisoformat(s) accepts s
IsIso(s) == \E i \in 1..Len(IsoStrings) : IsoStrings[i] = s

\* datetime.fromisoformat(s), for an s it accepts (ValueError otherwise)
fromisoformat(s) == CHOOSE i \in 1..Len(IsoStrings) : IsoStrings[i] = s

----------------------------------------------------------------------------
(* Persistence functions of src/database.py.  The store outcome st says     *)
(* what the store does with the write of this call.                         *)

RawStoreOutcomes == {"ok", "commit_error", "session_error"}
MedStoreOutcomes == {"ok", "commit_error"}

\* the timestamp= argument of both row constructors:
\* datetime.fromisoformat(x) if isinstance(x, str) else x
TimestampArgOk(ts) == ts.t = "str" => IsIso(ts.s)
TimestampArg(ts) == IF ts.t = "str" THEN PyDatetime(fromisoformat(ts.s)) ELSE ts

\* save_raw_mqtt_data(data) on table rows: [rows, raised].  data holds topic,
\* payload (a text: both callers pass a str, so the dict branch of line 215
\* is not taken) and timestamp.  Every exception of the body is caught and
\* rolled back, but when SessionLocal() itself raises, db is unbound and the
\* handler's "if db:" raises in turn, out of the function.
save_raw_mqtt_data(data, rows, st) ==
    IF st = "session_error" THEN [rows |-> rows, raised |-> TRUE]
    ELSE IF ~TimestampArgOk(data.timestamp) \/ st = "commit_error"
    THEN [rows |-> rows, raised |-> FALSE]
    ELSE [rows |-> Append(rows, [id |-> Len(rows) + 1,
                                 topic |-> data.topic,
                                 payload |-> data.payload,
                                 timestamp |-> TimestampArg(data.timestamp)]),
          raised |-> FALSE]

\* a copy-paste slip in the row constructor: spo2 read from the heart_rate key
MedicionesRowSwapped(data, id) ==
    [id |-> id,
     paciente_identificador |-> dict_get(data, "paciente_identificador", PyNone),
     sensor |-> dict_get(data, "sensor", PyNone),
     heart_rate |-> dict_get(data, "heart_rate", PyNone),
     spo2 |-> dict_get(data, "heart_rate", PyNone),
     temperature |-> dict_get(data, "temperature", PyNone),
     finger_detected |-> dict_get(data, "finger_detected", PyBool(FALSE)),
     timestamp |-> TimestampArg(dict_get(data, "timestamp", PyNone))]

\* the DBMedicionesData row built from data (lines 144-152)
MedicionesRow(data, id) ==
    [id |-> id,
     paciente_identificador |-> dict_get(data, "paciente_identificador", PyNone),
     sensor |-> dict_get(data, "sensor", PyNone),
     heart_rate |-> dict_get(data, "heart_rate", PyNone),
     spo2 |-> dict_get(data, "spo2", PyNone),
     temperature |-> dict_get(data, "temperature", PyNone),
     finger_detected |-> dict_get(data, "finger_detected", PyBool(FALSE)),
     timestamp |-> TimestampArg(dict_get(data, "timestamp", PyNone))]

\* save_mediciones_data(data) on table rows: [rows, raised, committed].
\* After db.commit() the function raises ValueError("Lo logro senior")
\* (line 155): it never returns normally, and the rollback of the handler
\* comes after the commit, so the committed row stays.
save_mediciones_data(data, rows, st) ==
    IF \/ ~dict_has(data, "paciente_identificador")
       \/ ~dict_has(data, "timestamp")
       \/ ~TimestampArgOk(dict_get(data, "timestamp", PyNone))
       \/ st = "commit_error"
    THEN [rows |-> rows, raised |-> TRUE, committed |-> FALSE]
    ELSE [rows |-> Append(rows, MedicionesRow(data, Len(rows) + 1)),
          raised |-> TRUE, committed |-> TRUE]

----------------------------------------------------------------------------
(* The MQTT callback on_message of src/mqtt/client.py.                      *)

\* what requests.get(API_ENDPOINT) can give
Responses ==
    { [error |-> TRUE, status_code |-> 0, identificador |-> PyNone],
      [error |-> FALSE, status_code |-> 404, identificador |-> PyNone],
      [error |-> FALSE, status_code |-> 200, identificador |-> PyStr("")],
      [error |-> FALSE, status_code |-> 200, identificador |-> PyStr("PAC001")] }

\* get_paciente_id(): the identificador of a 200 response, None otherwise
get_paciente_id(response) ==
    IF response.error THEN PyNone
    ELSE IF response.status_code = 200 THEN response.identificador
    ELSE PyNone

\* an outer handler that only logs: the undecodable message is not saved
error_path_log_only(msg, rawSt, raw, med, clock) ==
    [raw |-> raw, med |-> med, raw_calls |-> 0, propagated |-> FALSE,
     payload_type |-> "undecodable", typed |-> "none",
     med_raised |-> FALSE, med_committed |-> FALSE]

\* an outer handler whose save is not wrapped in try/except: what
\* save_raw_mqtt_data raises leaves on_message
error_path_unguarded(msg, rawSt, raw, med, clock) ==
    LET r == save_raw_mqtt_data(
                 [topic |-> msg.topic,
                  payload |-> decode_utf8_ignore(msg.payload),
                  timestamp |-> PyStr(isoformat(clock))], raw, rawSt)
    IN  [raw |-> r.rows, med |-> med, raw_calls |-> 1, propagated |-> r.raised,
         payload_type |-> "undecodable", typed |-> "none",
         med_raised |-> FALSE, med_committed |-> FALSE]

\* the outer except handler (lines 128-139): the message is saved with the
\* undecodable bytes dropped; whatever that save raises is caught
error_path(msg, rawSt, raw, med, clock) ==
    LET r == save_raw_mqtt_data(
                 [topic |-> msg.topic,
                  payload |-> decode_utf8_ignore(msg.payload),
                  timestamp |-> PyStr(isoformat(clock))], raw, rawSt)
    IN  [raw |-> r.rows, med |-> med, raw_calls |-> 1, propagated |-> FALSE,
         payload_type |-> "undecodable", typed |-> "none",
         med_raised |-> FALSE, med_committed |-> FALSE]

\* the typed insert attempted for every topic
typed_path_any_topic(topic, payload, identificador, medSt, med, clock) ==
    IF ~Truthy(identificador)
    THEN [med |-> med, typed |-> "no_id", raised |-> FALSE, committed |-> FALSE]
    ELSE IF payload.t # "dict"
    THEN [med |-> med, typed |-> "type_error", raised |-> TRUE, committed |-> FALSE]
    ELSE LET datos_completos ==
                 dict_set(dict_set(payload, "paciente_identificador", identificador),
                          "timestamp", PyStr(isoformat(clock)))
             s == save_mediciones_data(datos_completos, med, medSt)
         IN  [med |-> s.rows, typed |-> "called", raised |-> s.raised,
              committed |-> s.committed]

\* a merge in which the keys of the payload come last: a payload that
\* carries paciente_identificador keeps its own
typed_path_payload_last(topic, payload, identificador, medSt, med, clock) ==
    IF topic # "esp32/mediciones"
    THEN [med |-> med, typed |-> "none", raised |-> FALSE, committed |-> FALSE]
    ELSE IF ~Truthy(identificador)
    THEN [med |-> med, typed |-> "no_id", raised |-> FALSE, committed |-> FALSE]
    ELSE IF payload.t # "dict"
    THEN [med |-> med, typed |-> "type_error", raised |-> TRUE, committed |-> FALSE]
    ELSE LET own == IF dict_has(payload, "paciente_identificador")
                    THEN dict_get(payload, "paciente_identificador", PyNone)
                    ELSE identificador
             datos_completos ==
                 dict_set(dict_set(payload, "paciente_identificador", own),
                          "timestamp", PyStr(isoformat(clock)))
             s == save_mediciones_data(datos_completos, med, medSt)
         IN  [med |-> s.rows, typed |-> "called", raised |-> s.raised,
              committed |-> s.committed]

\* type-specific persistence (lines 110-126), for a payload parsed as JSON:
\* [med, typed, raised, committed]; raised is an exception caught at line 125
typed_path(topic, payload, identificador, medSt, med, clock) ==
    IF topic # "esp32/mediciones"
    THEN [med |-> med, typed |-> "none", raised |-> FALSE, committed |-> FALSE]
    ELSE IF ~Truthy(identificador)
    THEN [med |-> med, typed |-> "no_id", raised |-> FALSE, committed |-> FALSE]
    ELSE IF payload.t # "dict"
    THEN \* {**payload, ...} of a non-mapping: TypeError
         [med |-> med, typed |-> "type_error", raised |-> TRUE, committed |-> FALSE]
    ELSE LET datos_completos ==
                 dict_set(dict_set(payload, "paciente_identificador", identificador),
                          "timestamp", PyStr(isoformat(clock)))
             s == save_mediciones_data(datos_completos, med, medSt)
         IN  [med |-> s.rows, typed |-> "called", raised |-> s.raised,
              committed |-> s.committed]

\* both writes in one transaction: a failure of the typed write takes the
\* raw row back with it
main_path_one_transaction(msg, raw_payload, response, rawSt, medSt, raw, med, clock) ==
    LET parsed == json_loads(raw_payload)
        raw_data == [topic |-> msg.topic,
                     payload |-> IF parsed.ok THEN json_dumps(parsed.value).text
                                 ELSE raw_payload,
                     timestamp |-> PyStr(isoformat(clock))]
        r == save_raw_mqtt_data(raw_data, raw, rawSt)
        t == IF parsed.ok
             THEN typed_path(msg.topic, parsed.value, get_paciente_id(response),
                             medSt, med, clock)
             ELSE [med |-> med, typed |-> "none", raised |-> FALSE,
                   committed |-> FALSE]
    IN  [raw |-> IF t.raised THEN raw ELSE r.rows, med |-> t.med, raw_calls |-> 1,
         propagated |-> FALSE,
         payload_type |-> IF parsed.ok THEN "json" ELSE "text", typed |-> t.typed,
         med_raised |-> t.raised, med_committed |-> t.committed]

\* lines 84-126, for a payload that decoded to raw_payload
main_path(msg, raw_payload, response, rawSt, medSt, raw, med, clock) ==
    LET parsed == json_loads(raw_payload)
        payload_type == IF parsed.ok THEN "json" ELSE "text"
        identificador == get_paciente_id(response)
        raw_data == [topic |-> msg.topic,
                     payload |-> IF parsed.ok THEN json_dumps(parsed.value).text
                                 ELSE raw_payload,
                     timestamp |-> PyStr(isoformat(clock))]
        r == save_raw_mqtt_data(raw_data, raw, rawSt)
        t == IF parsed.ok
             THEN typed_path(msg.topic, parsed.value, identificador, medSt, med, clock)
             ELSE [med |-> med, typed |-> "none", raised |-> FALSE,
                   committed |-> FALSE]
    IN  [raw |-> r.rows, med |-> t.med, raw_calls |-> 1, propagated |-> FALSE,
         payload_type |-> payload_type, typed |-> t.typed,
         med_raised |-> t.raised, med_committed |-> t.committed]

\* on_message(client, userdata, msg)
on_message(msg, response, rawSt, medSt, raw, med, clock) ==
    LET decoded == decode_utf8(msg.payload)
    IN  IF decoded.raised
        THEN error_path(msg, rawSt, raw, med, clock)
        ELSE main_path(msg, decoded.text, response, rawSt, medSt, raw, med, clock)

----------------------------------------------------------------------------
(* The connection manager of src/mqtt/client.py.                            *)

TOPICS == <<"esp32/mediciones", "esp32/#">>

max_retries == 5
backoff_base == 5

\* a backoff that forgets to grow with the attempt number
wait_time_constant(count) == backoff_base

\* wait_time = 5 * retry_count
wait_time(count) == backoff_base * count

\* parse_timestamp(payload): the mapping with its timestamp repaired.  A
\* timestamp that is present and is no str is left as it is.
parse_timestamp(payload, clock) ==
    IF dict_has(payload, "timestamp")
    THEN LET ts == dict_get(payload, "timestamp", PyNone)
         IN  IF ts.t = "str"
             THEN IF IsIso(ts.s)
                  THEN dict_set(payload, "timestamp", PyDatetime(fromisoformat(ts.s)))
                  ELSE dict_set(payload, "timestamp", PyDatetime(clock))
             ELSE payload
    ELSE dict_set(payload, "timestamp", PyDatetime(clock))

\* publish(topic, message): [parsed, handed, raised]; handed is the text
\* given to client.publish, <<>> when json.dumps raised (caught, line 213)
publish(topic, message, clock) ==
    LET parsed == parse_timestamp(message, clock)
        dumped == json_dumps(parsed)
    IN  [parsed |-> parsed,
         called |-> dumped.ok,
         handed |-> dumped.text,
         raised |-> FALSE]

----------------------------------------------------------------------------
(* Inputs *)

\* topics messages arrive on: the typed topic, and one matched only by the
\* esp32/# subscription
MsgTopics == {"esp32/mediciones", "esp32/sensors"}

\* {"sensor":"MAX30102","heart_rate":72,"spo2":98,"temperature":36,"finger_detected":true}
\* as a device sends it, without blanks
PayloadCompact ==
    <<Punct("{"), StrTok("sensor"), Punct(":"), StrTok("MAX30102"), Punct(","),
      StrTok("heart_rate"), Punct(":"), NumTok(72), Punct(","),
      StrTok("spo2"), Punct(":"), NumTok(98), Punct(","),
      StrTok("temperature"), Punct(":"), NumTok(36), Punct(","),
      StrTok("finger_detected"), Punct(":"), LitTok("true"), Punct("}")>>

\* {"heart_rate": 250, "timestamp": "2024-01-01T00:00:00"}
\* with the separators json.dumps writes, carrying a device timestamp
PayloadWithTimestamp ==
    <<Punct("{"), StrTok("heart_rate"), Punct(":"), WS, NumTok(250), Punct(","), WS,
      StrTok("timestamp"), Punct(":"), WS, StrTok("2024-01-01T00:00:00"), Punct("}")>>

\* {"paciente_identificador": "OTRO", "spo2": 98, "spo2": 99}
PayloadOwnIdentifier ==
    <<Punct("{"), StrTok("paciente_identificador"), Punct(":"), WS, StrTok("OTRO"),
      Punct(","), WS, StrTok("spo2"), Punct(":"), WS, NumTok(98),
      Punct(","), WS, StrTok("spo2"), Punct(":"), WS, NumTok(99), Punct("}")>>

\* 72: valid JSON that is no object
PayloadScalar == <<NumTok(72)>>

\* not json
PayloadText == <<JunkTok("not"), WS, JunkTok("json")>>

\* {"heart_rate":72   (truncated)
PayloadTruncated == <<Punct("{"), StrTok("heart_rate"), Punct(":"), NumTok(72)>>

\* temp=<FF>36: bytes that are not valid UTF-8
PayloadBadUtf8 == <<JunkTok("temp="), BadByte, NumTok(36)>>

Payloads ==
    { PayloadCompact, PayloadWithTimestamp, PayloadOwnIdentifier, PayloadScalar,
      PayloadText, PayloadTruncated, PayloadBadUtf8 }

\* the mappings given to publish
Item(key, val) == [key |-> key, val |-> val]
PubMessages ==
    { PyDict(<<Item("temperature", PyInt(36))>>),
      PyDict(<<Item("temperature", PyInt(36)),
               Item("timestamp", PyStr("2024-01-01T00:00:00"))>>),
      PyDict(<<Item("temperature", PyInt(36)), Item("timestamp", PyStr("ayer"))>>),
      PyDict(<<Item("temperature", PyInt(36)), Item("timestamp", PyInt(370099))>>) }

\* return codes of a connection acknowledgement (0 = accepted)
ConnackCodes == 0..5

----------------------------------------------------------------------------
(* What mqtt/client.py prints.  A line is [fmt, args]: the text of the      *)
(* f-string and the values formatted into it.  The password is a sequence   *)
(* of characters.                                                           *)

\* longest password, and number of printed lines after which no handler runs
MaxPwLen == 2
MaxLines == 3

MQTT_USERNAME == "admin"
MQTT_CLIENT_ID == "python_client"

PwChars == {"a", "b"}
Passwords == UNION { [1..n -> PwChars] : n \in 0..MaxPwLen }

Line(fmt, args) == [fmt |-> fmt, args |-> args]

\* a credentials line that formats the password itself
credentials_line_plain(username, password) ==
    Line("Using credentials: {}/{}", <<username>> \o password)

\* line 161: the username, and one "*" for every character of the password
credentials_line(username, password) ==
    Line("Using credentials: {}/{}", <<username>> \o [i \in 1..Len(password) |-> "*"])

\* the buffers the paho client hands to on_log.  Its CONNECT record carries
\* the flags u and p (a username, a password was given to username_pw_set)
\* and the client id; username_pw_set was given two str values (line 160)
PahoEvents == {"Sending CONNECT", "Received CONNACK", "Sending PINGREQ"}
paho_log(event, username, password) ==
    IF event = "Sending CONNECT"
    THEN <<event, "u1", "p1", "client_id=", MQTT_CLIENT_ID>>
    ELSE <<event>>

\* on_log(client, userdata, level, buf)
on_log(buf) == Line("MQTT Log: {}", buf)

\* on_subscribe(client, userdata, mid, granted_qos)
on_subscribe(granted_qos) == Line("Subscription confirmed with QoS: {}", <<granted_qos>>)

\* the lines of one iteration of the loop of start_mqtt_client that starts
\* with retry_count = count
start_mqtt_client_lines(count, connected) ==
    <<Line("Attempting to connect to MQTT broker... (attempt {})", <<count + 1>>),
      Line("Broker: {}:{}", <<>>)>> \o
    IF connected
    THEN <<Line("MQTT client started successfully", <<>>)>>
    ELSE <<Line("Failed to start MQTT client (attempt {}): {}", <<count + 1>>),
           IF count + 1 < max_retries
           THEN Line("Retrying in {} seconds...", <<wait_time(count + 1)>>)
           ELSE Line("Max retries ({}) reached. Could not connect to MQTT broker.",
                     <<max_retries>>)>>

\* the lines of on_connect: ok[i] says whether the subscribe of TOPICS[i]
\* returned MQTT_ERR_SUCCESS
on_connect_lines(rc, ok) ==
    IF rc = 0
    THEN <<Line("Connected successfully to MQTT broker {}:{}", <<>>)>> \o
         [i \in 1..Len(TOPICS) |->
             IF ok[i] THEN Line("Subscribed to {}", <<TOPICS[i]>>)
             ELSE Line("Failed to subscribe to {}", <<TOPICS[i]>>)]
    ELSE <<Line("Connection failed with code {}: {}", <<rc>>)>>

\* the line of on_disconnect
on_disconnect_lines(rc) ==
    IF rc # 0
    THEN <<Line("Unexpected disconnection from MQTT broker (code: {})", <<rc>>)>>
    ELSE <<Line("Disconnected from MQTT broker", <<>>)>>

\* the lines of on_message for a message whose handling gave r
on_message_lines(msg, response, rawSt, r) ==
    IF r.payload_type = "undecodable"
    THEN <<Line("Error processing message: {}", <<>>)>> \o
         IF rawSt = "session_error"
         THEN <<Line("Error saving error message: {}", <<>>)>>
         ELSE <<>>
    ELSE <<Line("Received on {}: {}", <<msg.topic, msg.payload>>),
           IF r.payload_type = "json"
           THEN Line("Parsed as JSON: {}", <<msg.payload>>)
           ELSE Line("Treating as text: {}", <<msg.payload>>)>> \o
         (IF response.error
          THEN <<Line("Error consultando endpoint: {}", <<>>)>>
          ELSE <<>>) \o
         <<IF rawSt = "session_error"
           THEN Line("Error saving raw data: {}", <<>>)
           ELSE Line("Saved raw data to database", <<>>)>> \o
         (IF r.typed = "no_id"
          THEN <<Line("No se pudo obtener paciente_id", <<>>)>>
          ELSE IF r.med_raised
          THEN <<Line("Error saving parsed data: {}", <<>>)>>
          ELSE IF r.typed = "called"
          THEN <<Line("Saved mediciones data Abadeer", <<>>)>>
          ELSE <<>>)

\* the line of publish(topic, message) that did r; sent says whether
\* client.publish returned MQTT_ERR_SUCCESS
publish_lines(topic, message, r, sent) ==
    IF ~r.called
    THEN <<Line("Error publishing message: {}", <<>>)>>
    ELSE IF sent
    THEN <<Line("Published to {}: {}", <<topic, r.parsed>>)>>
    ELSE <<Line("Failed to publish to {}: {}", <<topic>>)>>

\* what the import of the module has printed, for every password
ImportOutput ==
    [p \in Passwords |-> <<credentials_line(MQTT_USERNAME, p)>>]

----------------------------------------------------------------------------
(* AsyncMQTTAPIServer.start of run_server_async.py: the two tasks it creates *)
(* and the calls of start_mqtt_client they make.                            *)

\* the functions that call start_mqtt_client under AsyncMQTTAPIServer.start
Callers == {"mqtt_worker", "startup_event"}

\* a call of start_mqtt_client: where it is, its retry_count, its return
\* value, and the thread it runs on
NoCall == [pc |-> "idle", retry_count |-> 0, result |-> "none", thread |-> "none"]

NoLaunch == [running |-> FALSE, calls |-> [c \in Callers |-> NoCall]]

\* one iteration of the while loop of start_mqtt_client, entered with
\* retry_count = count: [pc, retry_count, result]
start_mqtt_client_iteration(count, connected) ==
    IF connected
    THEN [pc |-> "returned", retry_count |-> count, result |-> "True"]
    ELSE IF count + 1 < max_retries
    THEN [pc |-> "loop", retry_count |-> count + 1, result |-> "none"]
    ELSE [pc |-> "returned", retry_count |-> count + 1, result |-> "False"]

----------------------------------------------------------------------------
(* Initial states *)

NoMessage ==
    [n |-> 0, topic |-> "", payload |-> <<>>, identificador |-> PyNone,
     rawSt |-> "ok", medSt |-> "ok", raw_calls |-> 0, propagated |-> FALSE,
     payload_type |-> "", typed |-> "none", med_raised |-> FALSE,
     med_committed |-> FALSE, raw_before |-> 0, med_before |-> 0,
     prev_failed |-> FALSE]

NoPublish ==
    [n |-> 0, message |-> PyDict(<<>>), parsed |-> PyDict(<<>>), called |-> FALSE,
     raised |-> FALSE]

\* start_mqtt_client has no caller yet
NoStartup ==
    [caller |-> "none", serving |-> FALSE, reported_started |-> FALSE]

\* no crear_paciente request has arrived
NoRequest ==
    [pc |-> "idle", identificador |-> "", nombre |-> "", checked |-> FALSE,
     status |-> 0, added |-> FALSE]

\* no request has been answered
NoResponse ==
    [endpoint |-> "", status |-> 0, rows |-> <<>>, args |-> <<>>]

InitStore ==
    /\ raw_mqtt_data = <<>>
    /\ mediciones_data = <<>>
    /\ now = ClockStart
    /\ last = NoMessage
    /\ startup = NoStartup
    /\ pacientes = <<>>
    /\ alertas_data = <<>>
    /\ predicciones_data = <<>>
    /\ reqs = [r \in Requests |-> NoRequest]
    /\ resp = NoResponse
    /\ stdout = ImportOutput
    /\ launch = NoLaunch

\* the module has been imported: the client exists, nothing is connected
Init ==
    /\ InitStore
    /\ pc = "loop"
    /\ retry_count = 0
    /\ slept = <<>>
    /\ connects = 0
    /\ result = "none"
    /\ loop_running = FALSE
    /\ session = "none"
    /\ subscribes = <<>>
    /\ acks = 0
    /\ outbox = <<>>
    /\ lastPub = NoPublish

\* the row of the patient PAC001, registered before the service started
RegisteredPaciente ==
    [id |-> 1, identificador |-> "PAC001", nombre |-> "Ana",
     fecha_registro |-> ClockStart]

\* the client runs, as in InitRunning, and one patient is registered
InitRegistered ==
    /\ raw_mqtt_data = <<>>
    /\ mediciones_data = <<>>
    /\ now = ClockStart
    /\ last = NoMessage
    /\ startup = NoStartup
    /\ pacientes = <<RegisteredPaciente>>
    /\ alertas_data = <<>>
    /\ predicciones_data = <<>>
    /\ reqs = [r \in Requests |-> NoRequest]
    /\ resp = NoResponse
    /\ stdout = ImportOutput
    /\ launch = NoLaunch
    /\ pc = "returned"
    /\ retry_count = 0
    /\ slept = <<>>
    /\ connects = 1
    /\ result = "True"
    /\ loop_running = TRUE
    /\ session = "connected"
    /\ subscribes = <<[topic |-> TOPICS[1], ok |-> TRUE], [topic |-> TOPICS[2], ok |-> TRUE]>>
    /\ acks = 1
    /\ outbox = <<>>
    /\ lastPub = NoPublish

\* start_mqtt_client returned True at its first attempt and the broker
\* accepted the connection: both subscribes were issued
InitRunning ==
    /\ InitStore
    /\ pc = "returned"
    /\ retry_count = 0
    /\ slept = <<>>
    /\ connects = 1
    /\ result = "True"
    /\ loop_running = TRUE
    /\ session = "connected"
    /\ subscribes = <<[topic |-> TOPICS[1], ok |-> TRUE], [topic |-> TOPICS[2], ok |-> TRUE]>>
    /\ acks = 1
    /\ outbox = <<>>
    /\ lastPub = NoPublish

----------------------------------------------------------------------------
(* Actions *)

\* the network loop delivers one message to on_message; an exception that
\* on_message lets through ends the loop thread
OnMessage ==
    /\ loop_running
    /\ session = "connected"
    /\ last.n < MaxMsgs
    /\ \E topic \in MsgTopics, payload \in Payloads, response \in Responses,
          rawSt \in RawStoreOutcomes :
       \E medSt \in IF topic = "esp32/mediciones" THEN MedStoreOutcomes ELSE {"ok"} :
         LET msg == [topic |-> topic, payload |-> payload]
             r == on_message(msg, response, rawSt, medSt, raw_mqtt_data,
                             mediciones_data, now)
         IN  /\ raw_mqtt_data' = r.raw
             /\ mediciones_data' = r.med
             /\ now' = now + 1
             /\ loop_running' = ~r.propagated
             /\ last' = [n |-> last.n + 1,
                         topic |-> topic,
                         payload |-> payload,
                         identificador |-> get_paciente_id(response),
                         rawSt |-> rawSt,
                         medSt |-> IF r.typed = "called" THEN medSt ELSE "ok",
                         raw_calls |-> r.raw_calls,
                         propagated |-> r.propagated,
                         payload_type |-> r.payload_type,
                         typed |-> r.typed,
                         med_raised |-> r.med_raised,
                         med_committed |-> r.med_committed,
                         raw_before |-> Len(raw_mqtt_data),
                         med_before |-> Len(mediciones_data),
                         prev_failed |-> /\ last.n > 0
                                         /\ \/ last.rawSt # "ok"
                                            \/ last.payload_type = "undecodable"
                                            \/ last.med_raised]
    /\ UNCHANGED <<pc, retry_count, slept, connects, result, session, subscribes,
                   acks, outbox, lastPub, startup, procVars, apiVars>>

\* one iteration of the while loop of start_mqtt_client: connect, then
\* loop_start and return True; or count the failure, then sleep and go
\* round again, or return False after the last one
StartAttempt ==
    /\ pc = "loop"
    /\ retry_count < max_retries
    /\ connects' = connects + 1
    /\ \E connected \in BOOLEAN :
         IF connected
         THEN /\ loop_running' = TRUE
              /\ result' = "True"
              /\ pc' = "returned"
              /\ UNCHANGED <<retry_count, slept>>
         ELSE /\ retry_count' = retry_count + 1
              /\ IF retry_count + 1 < max_retries
                 THEN /\ slept' = Append(slept, wait_time(retry_count + 1))
                      /\ UNCHANGED <<pc, result>>
                 ELSE /\ result' = "False"
                      /\ pc' = "returned"
                      /\ UNCHANGED slept
              /\ UNCHANGED loop_running
    /\ UNCHANGED <<session, subscribes, acks, outbox, lastPub>>
    /\ UNCHANGED <<ingestVars, startup, procVars, apiVars>>

\* an on_connect that gives up at the first subscribe that fails
OnConnectStopAtFailure ==
    /\ loop_running
    /\ session # "connected"
    /\ acks < MaxAcks
    /\ acks' = acks + 1
    /\ \E rc \in ConnackCodes, ok1 \in BOOLEAN, ok2 \in BOOLEAN :
         IF rc = 0
         THEN /\ session' = "connected"
              /\ subscribes' =
                     IF ok1
                     THEN subscribes \o <<[topic |-> TOPICS[1], ok |-> ok1],
                                          [topic |-> TOPICS[2], ok |-> ok2]>>
                     ELSE Append(subscribes, [topic |-> TOPICS[1], ok |-> ok1])
         ELSE /\ session' = "refused"
              /\ UNCHANGED subscribes
    /\ UNCHANGED <<pc, retry_count, slept, connects, result, loop_running, outbox,
                   lastPub>>
    /\ UNCHANGED <<ingestVars, startup, procVars, apiVars>>

\* on_connect(client, userdata, flags, rc): on rc = 0 a subscribe for every
\* topic of TOPICS, whatever each subscribe returns
OnConnect ==
    /\ loop_running
    /\ session # "connected"
    /\ acks < MaxAcks
    /\ acks' = acks + 1
    /\ \E rc \in ConnackCodes, ok1 \in BOOLEAN, ok2 \in BOOLEAN :
         IF rc = 0
         THEN /\ session' = "connected"
              /\ subscribes' = subscribes \o <<[topic |-> TOPICS[1], ok |-> ok1],
                                               [topic |-> TOPICS[2], ok |-> ok2]>>
         ELSE /\ session' = "refused"
              /\ UNCHANGED subscribes
    /\ UNCHANGED <<pc, retry_count, slept, connects, result, loop_running, outbox,
                   lastPub>>
    /\ UNCHANGED <<ingestVars, startup, procVars, apiVars>>

\* on_disconnect(client, userdata, rc): the event is logged
OnDisconnect ==
    /\ loop_running
    /\ session = "connected"
    /\ \E rc \in {0, 1} : session' = "disconnected"
    /\ UNCHANGED <<pc, retry_count, slept, connects, result, loop_running,
                   subscribes, acks, outbox, lastPub>>
    /\ UNCHANGED <<ingestVars, startup, procVars, apiVars>>

\* a call of publish(topic, message)
Publish ==
    /\ lastPub.n < MaxPubs
    /\ \E topic \in MsgTopics, message \in PubMessages :
         LET r == publish(topic, message, now)
         IN  /\ outbox' = IF r.called
                          THEN Append(outbox, [topic |-> topic, payload |-> r.handed])
                          ELSE outbox
             /\ lastPub' = [n |-> lastPub.n + 1, message |-> message,
                            parsed |-> r.parsed, called |-> r.called,
                            raised |-> r.raised]
    /\ UNCHANGED <<pc, retry_count, slept, connects, result, loop_running, session,
                   subscribes, acks>>
    /\ UNCHANGED <<ingestVars, startup, procVars, apiVars>>

\* startup_event(): start_mqtt_client() is called as a statement, its return
\* value res is dropped, the handler returns and the application serves
startup_event(res) ==
    [caller |-> "startup_event", serving |-> TRUE, reported_started |-> FALSE]

\* mqtt_worker(): start_mqtt_client() is called as a statement, its return
\* value res is dropped, "MQTT client started successfully" is logged and the
\* worker idles while the API task serves
mqtt_worker(res) ==
    [caller |-> "mqtt_worker", serving |-> TRUE, reported_started |-> TRUE]

\* the FastAPI startup handler continues after start_mqtt_client returned
StartupEvent ==
    /\ pc = "returned"
    /\ startup.caller = "none"
    /\ startup' = startup_event(result)
    /\ UNCHANGED <<ingestVars, connVars, apiVars, procVars>>

\* the worker thread of AsyncMQTTAPIServer continues after start_mqtt_client
\* returned
MqttWorker ==
    /\ pc = "returned"
    /\ startup.caller = "none"
    /\ startup' = mqtt_worker(result)
    /\ UNCHANGED <<ingestVars, connVars, apiVars, procVars>>

----------------------------------------------------------------------------
(* Patients: database.py and the /pacientes/ endpoints of api/routers/data.py *)

\* the identifiers and names that requests carry
Identificadores == {"PAC001", "PAC002"}
Nombres == {"Ana"}
\* outcomes of a commit on the pacientes table, the unique constraint aside
PacStoreOutcomes == {"ok", "commit_error"}

\* get_paciente(paciente_id): the rows with that id (.first() of at most one)
get_paciente(paciente_id, rows) ==
    SelectSeq(rows, LAMBDA p : p.id = paciente_id)

\* get_paciente_by_identifier(identificador): the rows with that identifier
get_paciente_by_identifier(identificador, rows) ==
    SelectSeq(rows, LAMBDA p : p.identificador = identificador)

\* the insert without the unique index on identificador
create_paciente_no_unique(paciente_data, rows, clock, st) ==
    IF st # "ok"
    THEN [rows |-> rows, raised |-> TRUE]
    ELSE [rows |-> Append(rows, [id |-> Len(rows) + 1,
                                 identificador |-> paciente_data.identificador,
                                 nombre |-> paciente_data.nombre,
                                 fecha_registro |-> clock]),
          raised |-> FALSE]

\* create_paciente(paciente_data): add and commit; the commit fails on a
\* second row with the same identificador (unique=True) and the exception is
\* re-raised after the rollback.  Ids are assigned in insertion order.
create_paciente(paciente_data, rows, clock, st) ==
    IF st # "ok" \/ Len(get_paciente_by_identifier(paciente_data.identificador, rows)) > 0
    THEN [rows |-> rows, raised |-> TRUE]
    ELSE [rows |-> Append(rows, [id |-> Len(rows) + 1,
                                 identificador |-> paciente_data.identificador,
                                 nombre |-> paciente_data.nombre,
                                 fecha_registro |-> clock]),
          raised |-> FALSE]

\* crear_paciente, up to the existence check (lines 176-181): 400 when a
\* patient with that identificador is already stored
CrearPacienteCheck(r) ==
    /\ reqs[r].pc = "idle"
    /\ \E identificador \in Identificadores, nombre \in Nombres :
         LET existing == get_paciente_by_identifier(identificador, pacientes)
         IN  reqs' = [reqs EXCEPT ![r] =
                        IF Len(existing) > 0
                        THEN [pc |-> "done", identificador |-> identificador,
                              nombre |-> nombre, checked |-> FALSE, status |-> 400,
                              added |-> FALSE]
                        ELSE [pc |-> "checked", identificador |-> identificador,
                              nombre |-> nombre, checked |-> TRUE, status |-> 0,
                              added |-> FALSE]]
    /\ UNCHANGED <<ingestVars, connVars, startup, procVars, pacientes, alertas_data,
                   predicciones_data, resp>>

\* crear_paciente, from the insert on (lines 183-187): 201 with the new row,
\* or 400 for any exception of create_paciente.  fecha_registro is the clock
\* at the insert.
CrearPacienteInsert(r) ==
    /\ reqs[r].pc = "checked"
    /\ \E st \in PacStoreOutcomes, tick \in {0, 1} :
         LET c == create_paciente([identificador |-> reqs[r].identificador,
                                   nombre |-> reqs[r].nombre], pacientes, now, st)
         IN  /\ pacientes' = c.rows
             /\ now' = now + tick
             /\ reqs' = [reqs EXCEPT ![r].pc = "done",
                                     ![r].status = IF c.raised THEN 400 ELSE 201,
                                     ![r].added = ~c.raised]
    /\ UNCHANGED <<raw_mqtt_data, mediciones_data, last, connVars, startup, procVars,
                   alertas_data, predicciones_data, resp>>

\* the bodies of PUT /pacientes/{id} (PacienteUpdate has the one field nombre):
\* nombre not sent, sent as a string, sent as null
UpdateBodies ==
    {[set |-> FALSE, null |-> FALSE, nombre |-> ""],
     [set |-> TRUE, null |-> FALSE, nombre |-> "Luis"],
     [set |-> TRUE, null |-> TRUE, nombre |-> ""]}

\* the update with the identifier taken from the request as well
actualizar_paciente_rekey(paciente_id, paciente_update, rows, st) ==
    IF Len(get_paciente(paciente_id, rows)) = 0
    THEN [rows |-> rows, status |-> 404, body |-> <<>>]
    ELSE IF st # "ok" \/ (paciente_update.set /\ paciente_update.null)
    THEN [rows |-> rows, status |-> 400, body |-> <<>>]
    ELSE LET new == [i \in 1..Len(rows) |->
                        IF rows[i].id = paciente_id /\ paciente_update.set
                        THEN [rows[i] EXCEPT !.nombre = paciente_update.nombre,
                                             !.identificador = paciente_update.nombre]
                        ELSE rows[i]]
         IN  [rows |-> new, status |-> 200, body |-> get_paciente(paciente_id, new)]

\* actualizar_paciente(paciente_id, paciente_update): 404 for an unknown id;
\* the fields of dict(exclude_unset=True) are set on the row and committed;
\* any exception of the commit (a null nombre violates nullable=False) gives
\* a rollback and 400
actualizar_paciente(paciente_id, paciente_update, rows, st) ==
    IF Len(get_paciente(paciente_id, rows)) = 0
    THEN [rows |-> rows, status |-> 404, body |-> <<>>]
    ELSE IF st # "ok" \/ (paciente_update.set /\ paciente_update.null)
    THEN [rows |-> rows, status |-> 400, body |-> <<>>]
    ELSE LET new == [i \in 1..Len(rows) |->
                        IF rows[i].id = paciente_id /\ paciente_update.set
                        THEN [rows[i] EXCEPT !.nombre = paciente_update.nombre]
                        ELSE rows[i]]
         IN  [rows |-> new, status |-> 200, body |-> get_paciente(paciente_id, new)]

\* the ids that requests name: those of the rows that can exist, and one more
PacienteIdArgs == 1..(MaxReqs + 1)

\* a PUT /pacientes/{paciente_id} request
ActualizarPaciente ==
    /\ \E paciente_id \in PacienteIdArgs, paciente_update \in UpdateBodies,
          st \in PacStoreOutcomes :
         LET u == actualizar_paciente(paciente_id, paciente_update, pacientes, st)
         IN  /\ pacientes' = u.rows
             /\ resp' = [endpoint |-> "actualizar_paciente", status |-> u.status,
                         rows |-> u.body,
                         args |-> [paciente_id |-> paciente_id,
                                   paciente_update |-> paciente_update]]
    /\ UNCHANGED <<ingestVars, connVars, startup, procVars, alertas_data, predicciones_data,
                   reqs>>

\* the attributes of the mapped classes (columns and relationships)
DBMedicionesDataAttrs ==
    {"id", "paciente_identificador", "sensor", "heart_rate", "spo2", "temperature",
     "finger_detected", "timestamp", "paciente"}
DBAlertasDataAttrs == {"id", "paciente_id", "tipo", "mensaje", "timestamp", "paciente"}
DBPrediccionesDataAttrs ==
    {"id", "paciente_id", "enfermedad", "heart_rate", "probabilidad", "timestamp",
     "paciente"}

\* the sequences that hold every row of rows exactly once
Orders(rows) ==
    {[i \in 1..Len(rows) |-> rows[f[i]]] :
        f \in {g \in [1..Len(rows) -> 1..Len(rows)] :
                 \A i, j \in 1..Len(rows) : g[i] = g[j] => i = j}}

\* the timestamp column of a row, in ticks
Timestamp(row) == row.timestamp.n

\* non-increasing in timestamp
IsDesc(q) == \A i \in 1..(Len(q) - 1) : Timestamp(q[i]) >= Timestamp(q[i + 1])

\* ORDER BY timestamp DESC: every order of rows that is non-increasing in
\* timestamp; rows with equal timestamps come in an order the query does
\* not determine
order_by_desc(rows) == {q \in Orders(rows) : IsDesc(q)}

\* .offset(skip).limit(limit) of an ordered result
offset_limit(q, skip, limit) ==
    SubSeq(q, skip + 1, IF Len(q) < skip + limit THEN Len(q) ELSE skip + limit)

\* get_alertas_por_paciente(paciente_id, limit), every possible result
get_alertas_por_paciente(paciente_id, limit, al) ==
    {offset_limit(q, 0, limit) :
        q \in order_by_desc(SelectSeq(al, LAMBDA a : a.paciente_id = paciente_id))}

\* get_predicciones_por_paciente(paciente_id, limit), every possible result
get_predicciones_por_paciente(paciente_id, limit, pred) ==
    {offset_limit(q, 0, limit) :
        q \in order_by_desc(SelectSeq(pred, LAMBDA a : a.paciente_id = paciente_id))}

\* get_mediciones_por_paciente(paciente_id, limit): the filter names
\* DBMedicionesData.paciente_id, which the class does not have; building
\* the query raises AttributeError
get_mediciones_por_paciente(paciente_id, limit, med) ==
    IF "paciente_id" \notin DBMedicionesDataAttrs
    THEN [raised |-> TRUE, results |-> {}]
    ELSE [raised |-> FALSE,
          results |-> {offset_limit(q, 0, limit) :
                          q \in order_by_desc(med)}]

\* the answers of the five patient-scoped reads: 404 for an unknown id; an
\* uncaught exception of the handler is answered with 500
Responses404 == {[status |-> 404, rows |-> <<>>]}
Responses500 == {[status |-> 500, rows |-> <<>>]}

\* obtener_paciente(paciente_id): the first related query filters on
\* DBMedicionesData.paciente_id
obtener_paciente(paciente_id, pac, med, al, pred) ==
    IF Len(get_paciente(paciente_id, pac)) = 0 THEN Responses404
    ELSE IF "paciente_id" \notin DBMedicionesDataAttrs THEN Responses500
    ELSE {[status |-> 200, rows |-> get_paciente(paciente_id, pac)]}

\* obtener_mediciones_paciente(paciente_id, limit)
obtener_mediciones_paciente(paciente_id, limit, pac, med) ==
    IF Len(get_paciente(paciente_id, pac)) = 0 THEN Responses404
    ELSE LET g == get_mediciones_por_paciente(paciente_id, limit, med)
         IN  IF g.raised THEN Responses500
             ELSE {[status |-> 200, rows |-> q] : q \in g.results}

\* obtener_alertas_paciente(paciente_id, limit)
obtener_alertas_paciente(paciente_id, limit, pac, al) ==
    IF Len(get_paciente(paciente_id, pac)) = 0 THEN Responses404
    ELSE {[status |-> 200, rows |-> q] :
             q \in get_alertas_por_paciente(paciente_id, limit, al)}

\* obtener_predicciones_paciente(paciente_id, limit)
obtener_predicciones_paciente(paciente_id, limit, pac, pred) ==
    IF Len(get_paciente(paciente_id, pac)) = 0 THEN Responses404
    ELSE {[status |-> 200, rows |-> q] :
             q \in get_predicciones_por_paciente(paciente_id, limit, pred)}

\* obtener_resumen_medico_paciente(paciente_id, dias): the first query of
\* the report filters on DBMedicionesData.paciente_id
obtener_resumen_medico_paciente(paciente_id, pac, med, al, pred) ==
    IF Len(get_paciente(paciente_id, pac)) = 0 THEN Responses404
    ELSE IF "paciente_id" \notin DBMedicionesDataAttrs THEN Responses500
    ELSE {[status |-> 200, rows |-> get_paciente(paciente_id, pac)]}

PatientReads ==
    {"obtener_paciente", "obtener_mediciones_paciente", "obtener_alertas_paciente",
     "obtener_predicciones_paciente", "obtener_resumen_medico_paciente"}

\* the default limit of the patient-scoped lists
DefaultLimit == 100

\* a patient-scoped GET request
PatientRead ==
    /\ \E endpoint \in PatientReads, paciente_id \in PacienteIdArgs :
       \E r \in CASE endpoint = "obtener_paciente" ->
                       obtener_paciente(paciente_id, pacientes, mediciones_data,
                                        alertas_data, predicciones_data)
                  [] endpoint = "obtener_mediciones_paciente" ->
                       obtener_mediciones_paciente(paciente_id, DefaultLimit, pacientes,
                                                   mediciones_data)
                  [] endpoint = "obtener_alertas_paciente" ->
                       obtener_alertas_paciente(paciente_id, DefaultLimit, pacientes,
                                                alertas_data)
                  [] endpoint = "obtener_predicciones_paciente" ->
                       obtener_predicciones_paciente(paciente_id, DefaultLimit, pacientes,
                                                     predicciones_data)
                  [] OTHER ->
                       obtener_resumen_medico_paciente(paciente_id, pacientes,
                                                       mediciones_data, alertas_data,
                                                       predicciones_data) :
         resp' = [endpoint |-> endpoint, status |-> r.status, rows |-> r.rows,
                  args |-> [paciente_id |-> paciente_id]]
    /\ UNCHANGED <<ingestVars, connVars, startup, procVars, pacientes, alertas_data,
                   predicciones_data, reqs>>

\* listar_pacientes(skip, limit): a page of the table in the order of a
\* SELECT without ORDER BY, which the query does not determine; then, for
\* each patient of the page, counts that filter on DBMedicionesData.paciente_id
listar_pacientes(skip, limit, pac) ==
    {IF Len(page) > 0 /\ "paciente_id" \notin DBMedicionesDataAttrs
     THEN [status |-> 500, rows |-> <<>>]
     ELSE [status |-> 200, rows |-> page] :
        page \in {offset_limit(q, skip, limit) : q \in Orders(pac)}}

\* a GET /pacientes/ request
ListarPacientes ==
    /\ \E skip \in {0, 1}, limit \in {1, DefaultLimit} :
       \E r \in listar_pacientes(skip, limit, pacientes) :
         resp' = [endpoint |-> "listar_pacientes", status |-> r.status, rows |-> r.rows,
                  args |-> [skip |-> skip, limit |-> limit]]
    /\ UNCHANGED <<ingestVars, connVars, startup, procVars, pacientes, alertas_data,
                   predicciones_data, reqs>>

----------------------------------------------------------------------------
(* Queries over the ingested tables: api/routers/data.py.  An optional     *)
(* query parameter is a set: {} when the request does not carry it.        *)

\* the lookup answers that carry an identifier
IdentifiedResponse(identificador) ==
    [error |-> FALSE, status_code |-> 200, identificador |-> PyStr(identificador)]

\* the network loop delivers a message while the API is in use; two messages
\* can be stamped with the same reading of the clock
Ingest(topics, payloads, responses) ==
    /\ loop_running
    /\ session = "connected"
    /\ Len(raw_mqtt_data) < MaxRows
    /\ \E topic \in topics, payload \in payloads, response \in responses,
          tick \in {0, 1} :
         LET r == on_message([topic |-> topic, payload |-> payload], response,
                             "ok", "ok", raw_mqtt_data, mediciones_data, now)
         IN  /\ raw_mqtt_data' = r.raw
             /\ mediciones_data' = r.med
             /\ now' = now + tick
    /\ UNCHANGED <<last, connVars, startup, procVars, apiVars>>

\* str.lower() of one character, as LIKE compares ASCII letters
Lower(c) ==
    CASE c = "H" -> "h"
      [] c = "C" -> "c"
      [] c = "ESP32" -> "esp32"
      [] c = "HEART" -> "heart"
      [] OTHER -> c

\* value LIKE pattern, as SQLite evaluates it: % matches any run of
\* characters, _ any one character, letters without regard to case
RECURSIVE like(_, _)
like(value, pattern) ==
    IF pattern = <<>> THEN value = <<>>
    ELSE IF Head(pattern) = "%"
    THEN like(value, Tail(pattern)) \/ (value # <<>> /\ like(Tail(value), pattern))
    ELSE /\ value # <<>>
         /\ Head(pattern) = "_" \/ Lower(Head(pattern)) = Lower(Head(value))
         /\ like(Tail(value), Tail(pattern))

\* column.contains(x) and column.ilike(f"%{x}%"): LIKE '%' || x || '%'
contains(value, x) == like(value, <<"%">> \o x \o <<"%">>)

\* the text of a topic, in segments
TopicText(topic) ==
    IF topic = "esp32/mediciones" THEN <<"esp32", "/", "mediciones">>
    ELSE <<"esp32", "/", "sensors">>

\* parse_mqtt_payload(payload_str): json.loads, or the text wrapped in a
\* dict when json.loads rejects it
parse_mqtt_payload(payload_str) ==
    LET r == json_loads(payload_str)
    IN  IF r.ok THEN r.value
        ELSE PyDict(<<[key |-> "raw_payload",
                       val |-> [t |-> "str", s |-> "", n |-> 0, items |-> payload_str]]>>)

\* the filters of obtener_datos_mqtt_crudos on one row (requests without
\* the search parameter): a parameter filters when it is given and truthy
RawMatches(d, topic, start_date, end_date) ==
    /\ \A x \in topic : x # <<>> => contains(TopicText(d.topic), x)
    /\ \A x \in start_date : Timestamp(d) >= x
    /\ \A x \in end_date : Timestamp(d) <= x

\* the response item built for a raw row
RawItem(d) ==
    [id |-> d.id, topic |-> d.topic, payload |-> parse_mqtt_payload(d.payload),
     timestamp |-> d.timestamp]

\* response_model=List[RawMQTTDataProcessed]: payload must be a dict
RawMQTTDataProcessedOk(items) == \A i \in 1..Len(items) : items[i].payload.t = "dict"

\* obtener_datos_mqtt_crudos(skip, limit, topic, start_date, end_date): every
\* answer the query can give, the order of rows with equal timestamps being
\* left open by ORDER BY timestamp DESC
obtener_datos_mqtt_crudos(skip, limit, topic, start_date, end_date, raw) ==
    LET filtered == SelectSeq(raw, LAMBDA d : RawMatches(d, topic, start_date, end_date))
    IN  {LET page == offset_limit(q, skip, limit)
             items == [i \in 1..Len(page) |-> RawItem(page[i])]
         IN  IF RawMQTTDataProcessedOk(items)
             THEN [status |-> 200, rows |-> items]
             ELSE [status |-> 500, rows |-> <<>>] :
            q \in order_by_desc(filtered)}

\* the values of the query parameters in the requests considered
SkipArgs == {0, 1}
LimitArgs == {1, 2}
TopicArgs == {{}, {<<"sensors">>}, {<<"ESP32", "_", "sensors">>}}
DateArgs == {{}, {ClockStart + 1}}

\* GET /mqtt/raw/ with skip, limit, and then with skip + limit, limit and the
\* same filters, the store unchanged in between.  A query leaves the store
\* as it is, so a behaviour holds one pair of them, at any point of ingestion.
RawPages ==
    /\ resp = NoResponse
    /\ \E skip \in SkipArgs, limit \in LimitArgs, topic \in TopicArgs,
          start_date \in DateArgs, end_date \in DateArgs :
       \E r1 \in obtener_datos_mqtt_crudos(skip, limit, topic, start_date, end_date,
                                           raw_mqtt_data),
          r2 \in obtener_datos_mqtt_crudos(skip + limit, limit, topic, start_date,
                                           end_date, raw_mqtt_data) :
         resp' = [endpoint |-> "obtener_datos_mqtt_crudos", status |-> r1.status,
                  rows |-> r1.rows,
                  args |-> [skip |-> skip, limit |-> limit, topic |-> topic,
                            start_date |-> start_date, end_date |-> end_date,
                            matching |-> SelectSeq(raw_mqtt_data,
                                LAMBDA d : RawMatches(d, topic, start_date, end_date)),
                            next_status |-> r2.status, next_rows |-> r2.rows]]
    /\ UNCHANGED <<ingestVars, connVars, startup, procVars, pacientes, alertas_data,
                   predicciones_data, reqs>>

\* {"heart_rate": h, "spo2": s, "temperature": t} as a device sends it
MedPayload(h, s, t) ==
    <<Punct("{"), StrTok("heart_rate"), Punct(":"), NumTok(h), Punct(","),
      StrTok("spo2"), Punct(":"), NumTok(s), Punct(","),
      StrTok("temperature"), Punct(":"), NumTok(t), Punct("}")>>

\* measurements at and one unit beyond the validity boundaries
MedPayloads ==
    {MedPayload(29, 70, 30), MedPayload(30, 100, 45), MedPayload(250, 69, 46),
     MedPayload(251, 101, 29)}

\* .join(DBPaciente): the measurements whose paciente_identificador is the
\* identificador of a stored patient
JoinPaciente(med, pac) ==
    SelectSeq(med, LAMBDA x :
        /\ x.paciente_identificador.t = "str"
        /\ \E i \in 1..Len(pac) : pac[i].identificador = x.paciente_identificador.s)

\* medicion.paciente.id
PacienteIdOf(x, pac) ==
    (CHOOSE i \in 1..Len(pac) : pac[i].identificador = x.paciente_identificador.s)

\* v if v and lo <= v <= hi else None
valid_or_none(v, lo, hi) ==
    IF Truthy(v) /\ lo <= v.n /\ v.n <= hi THEN v ELSE PyNone

\* the response item of listar_mediciones for a row (lines 247-266)
MedicionItem(x, pac) ==
    [id |-> x.id,
     paciente_identificador |-> x.paciente_identificador,
     paciente_id |-> PacienteIdOf(x, pac),
     sensor |-> x.sensor,
     heart_rate |-> valid_or_none(x.heart_rate, 30, 250),
     spo2 |-> valid_or_none(x.spo2, 70, 100),
     temperature |-> valid_or_none(x.temperature, 30, 45),
     finger_detected |-> x.finger_detected,
     timestamp |-> x.timestamp]

\* listar_mediciones(skip, limit, paciente_identificador, start_date,
\* end_date), for requests without sensor and finger_detected: every answer
\* the query can give
listar_mediciones(skip, limit, paciente_identificador, start_date, end_date, med, pac) ==
    LET filtered ==
            SelectSeq(JoinPaciente(med, pac), LAMBDA x :
                /\ \A p \in paciente_identificador :
                       p # "" => x.paciente_identificador.s = p
                /\ \A d \in start_date : Timestamp(x) >= d
                /\ \A d \in end_date : Timestamp(x) <= d)
    IN  {LET page == offset_limit(q, skip, limit)
         IN  [status |-> 200, rows |-> [i \in 1..Len(page) |-> MedicionItem(page[i], pac)]] :
            q \in order_by_desc(filtered)}

\* obtener_ultimas_mediciones(limit): the item of the first row reads
\* medicion.paciente_id, an attribute the row does not have (AttributeError);
\* the values are passed on as stored
obtener_ultimas_mediciones(limit, med, pac) ==
    {LET page == offset_limit(q, 0, limit)
     IN  IF Len(page) > 0 /\ "paciente_id" \notin DBMedicionesDataAttrs
         THEN [status |-> 500, rows |-> <<>>]
         ELSE [status |-> 200,
               rows |-> [i \in 1..Len(page) |->
                           [MedicionItem(page[i], pac) EXCEPT
                               !.heart_rate = page[i].heart_rate,
                               !.spo2 = page[i].spo2,
                               !.temperature = page[i].temperature]]] :
        q \in order_by_desc(JoinPaciente(med, pac))}

MedicionReads ==
    {"listar_mediciones", "obtener_ultimas_mediciones", "obtener_mediciones_paciente"}

\* the default limit of obtener_ultimas_mediciones
LatestLimit == 10

\* a GET request for measurements; a query leaves the store as it is, so a
\* behaviour holds one of them, at any point of ingestion
MedicionesRead ==
    /\ resp = NoResponse
    /\ \E endpoint \in MedicionReads, skip \in SkipArgs, limit \in LimitArgs,
          paciente_identificador \in {{}, {"PAC001"}}, start_date \in DateArgs :
       \E r \in CASE endpoint = "listar_mediciones" ->
                       listar_mediciones(skip, limit, paciente_identificador, start_date,
                                         {}, mediciones_data, pacientes)
                  [] endpoint = "obtener_ultimas_mediciones" ->
                       obtener_ultimas_mediciones(LatestLimit, mediciones_data, pacientes)
                  [] OTHER ->
                       obtener_mediciones_paciente(1, DefaultLimit, pacientes,
                                                   mediciones_data) :
         resp' = [endpoint |-> endpoint, status |-> r.status, rows |-> r.rows,
                  args |-> [skip |-> skip, limit |-> limit,
                            paciente_identificador |-> paciente_identificador,
                            start_date |-> start_date,
                            stored |-> Len(JoinPaciente(mediciones_data, pacientes))]]
    /\ UNCHANGED <<ingestVars, connVars, startup, procVars, pacientes, alertas_data,
                   predicciones_data, reqs>>

----------------------------------------------------------------------------
(* Alerts: save_alertas_data of database.py and listar_alertas.  A tipo is *)
(* a text in segments; "_" and "-" are single characters.                  *)

TipoCritical == <<"heart", "_", "rate", "_", "critical">>
TipoRate == <<"heart", "_", "rate">>
TipoDashed == <<"heart", "-", "rate", "-", "low">>
Tipos == {TipoCritical, TipoRate, TipoDashed}

\* save_alertas_data(data) on table rows: [rows, raised].  data holds its
\* keys as a set-valued record: a key that is absent is {}.
save_alertas_data(data, rows, clock, st) ==
    IF data.paciente_id = {} \/ st # "ok"
    THEN [rows |-> rows, raised |-> TRUE]
    ELSE [rows |-> Append(rows,
                     [id |-> Len(rows) + 1,
                      paciente_id |-> CHOOSE x \in data.paciente_id : TRUE,
                      tipo |-> data.tipo,
                      mensaje |-> data.mensaje,
                      timestamp |-> IF data.timestamp = {} THEN PyDatetime(clock)
                                    ELSE PyDatetime(CHOOSE x \in data.timestamp : TRUE)]),
          raised |-> FALSE]

\* the timestamp keys that callers pass: none, or a time around the start
TimestampKeys == {{}, {ClockStart - 1}, {ClockStart + 1}}

\* a call of save_alertas_data, with or without paciente_id, for a registered
\* or an unknown patient
SaveAlertas(tipos, timestamps) ==
    /\ Len(alertas_data) < MaxRows
    /\ \E paciente_id \in {{}, {1}, {2}}, tipo \in tipos, timestamp \in timestamps,
          st \in PacStoreOutcomes :
         alertas_data' =
             save_alertas_data([paciente_id |-> paciente_id, tipo |-> tipo,
                                mensaje |-> "alert", timestamp |-> timestamp],
                               alertas_data, now, st).rows
    /\ UNCHANGED <<ingestVars, connVars, startup, procVars, pacientes, predicciones_data,
                   reqs, resp>>

\* .join(DBPaciente): the alerts whose paciente_id is the id of a stored patient
JoinPacienteById(rows, pac) ==
    SelectSeq(rows, LAMBDA a : \E i \in 1..Len(pac) : pac[i].id = a.paciente_id)

\* the filters of listar_alertas on one row: a parameter filters when it is
\* given and truthy
AlertaMatches(a, paciente_id, tipo, start_date, end_date) ==
    /\ \A x \in paciente_id : x # 0 => a.paciente_id = x
    /\ \A x \in tipo : x # <<>> => contains(a.tipo, x)
    /\ \A x \in start_date : Timestamp(a) >= x
    /\ \A x \in end_date : Timestamp(a) <= x

\* the list without the end_date filter
listar_alertas_open_end(skip, limit, paciente_id, tipo, start_date, end_date, al, pac) ==
    LET filtered ==
            SelectSeq(JoinPacienteById(al, pac),
                      LAMBDA a : AlertaMatches(a, paciente_id, tipo, start_date, {}))
    IN  {[status |-> 200, rows |-> offset_limit(q, skip, limit)] :
            q \in order_by_desc(filtered)}

\* listar_alertas(skip, limit, paciente_id, tipo, start_date, end_date): every
\* answer the query can give; an item carries the columns of its row
listar_alertas(skip, limit, paciente_id, tipo, start_date, end_date, al, pac) ==
    LET filtered ==
            SelectSeq(JoinPacienteById(al, pac),
                      LAMBDA a : AlertaMatches(a, paciente_id, tipo, start_date, end_date))
    IN  {[status |-> 200, rows |-> offset_limit(q, skip, limit)] :
            q \in order_by_desc(filtered)}

\* the tipo and window parameters of the requests considered
TipoArgs == {{}, {TipoRate}, {<<"HEART", "_", "rate">>}}
WindowArgs == {{}, {ClockStart}}

\* a GET /alertas/ request whose paciente_id, tipo and dates are taken from
\* the given sets; a query leaves the store as it is, so a behaviour holds
\* one of them, at any point
ListarAlertasCon(pacienteIds, tipos, dates) ==
    /\ resp = NoResponse
    /\ \E skip \in SkipArgs, limit \in LimitArgs, paciente_id \in pacienteIds,
          tipo \in tipos, start_date \in dates, end_date \in dates :
       \E r \in listar_alertas(skip, limit, paciente_id, tipo, start_date, end_date,
                               alertas_data, pacientes) :
         resp' = [endpoint |-> "listar_alertas", status |-> r.status, rows |-> r.rows,
                  args |-> [skip |-> skip, limit |-> limit, paciente_id |-> paciente_id,
                            tipo |-> tipo,
                            start_date |-> start_date, end_date |-> end_date]]
    /\ UNCHANGED <<ingestVars, connVars, startup, procVars, pacientes, alertas_data,
                   predicciones_data, reqs>>

\* a GET /alertas/ request without paciente_id
ListarAlertas == ListarAlertasCon({{}}, TipoArgs, WindowArgs)

\* save_predicciones_data(data) on table rows: [rows, raised]; probabilidad
\* in hundredths
save_predicciones_data(data, rows, clock, st) ==
    IF data.paciente_id = {} \/ st # "ok"
    THEN [rows |-> rows, raised |-> TRUE]
    ELSE [rows |-> Append(rows,
                     [id |-> Len(rows) + 1,
                      paciente_id |-> CHOOSE x \in data.paciente_id : TRUE,
                      enfermedad |-> data.enfermedad,
                      heart_rate |-> data.heart_rate,
                      probabilidad |-> data.probabilidad,
                      timestamp |-> IF data.timestamp = {} THEN PyDatetime(clock)
                                    ELSE PyDatetime(CHOOSE x \in data.timestamp : TRUE)]),
          raised |-> FALSE]

\* a call of save_predicciones_data, with or without paciente_id
SavePredicciones ==
    /\ Len(predicciones_data) < MaxRows
    /\ \E paciente_id \in {{}, {1}}, st \in PacStoreOutcomes :
         predicciones_data' =
             save_predicciones_data([paciente_id |-> paciente_id,
                                     enfermedad |-> "arritmia", heart_rate |-> PyInt(72),
                                     probabilidad |-> 80,
                                     timestamp |-> {ClockStart}],
                                    predicciones_data, now, st).rows
    /\ UNCHANGED <<ingestVars, connVars, startup, procVars, pacientes, alertas_data, reqs, resp>>

----------------------------------------------------------------------------
(* Predictions list: listar_predicciones of api/routers/data.py.            *)
(* Probabilities are in hundredths.                                         *)

\* the paciente_id and min_probabilidad parameters of the requests considered
PacienteIdFilters == {{}, {0}, {1}, {2}}
MinProbabilidadArgs == {{}, {0}, {50}, {90}}

\* the filters of listar_predicciones on one row: a parameter filters when
\* it is given and truthy
PrediccionMatches(p, paciente_id, enfermedad, min_probabilidad, start_date, end_date) ==
    /\ \A x \in paciente_id : x # 0 => p.paciente_id = x
    /\ \A x \in enfermedad : x # <<>> => contains(<<p.enfermedad>>, x)
    /\ \A x \in min_probabilidad : x # 0 => p.probabilidad >= x
    /\ \A x \in start_date : Timestamp(p) >= x
    /\ \A x \in end_date : Timestamp(p) <= x

\* listar_predicciones(skip, limit, paciente_id, enfermedad, min_probabilidad,
\* start_date, end_date): every answer the query can give
listar_predicciones(skip, limit, paciente_id, enfermedad, min_probabilidad, start_date, end_date, pr, pac) ==
    LET filtered ==
            SelectSeq(JoinPacienteById(pr, pac),
                      LAMBDA p : PrediccionMatches(p, paciente_id, enfermedad,
                                                   min_probabilidad, start_date, end_date))
    IN  {[status |-> 200, rows |-> offset_limit(q, skip, limit)] :
            q \in order_by_desc(filtered)}

\* a GET /predicciones/ request
ListarPredicciones ==
    /\ resp = NoResponse
    /\ \E skip \in SkipArgs, limit \in LimitArgs, paciente_id \in PacienteIdFilters,
          min_probabilidad \in MinProbabilidadArgs :
       \E r \in listar_predicciones(skip, limit, paciente_id, {}, min_probabilidad,
                                    {}, {}, predicciones_data, pacientes) :
         resp' = [endpoint |-> "listar_predicciones", status |-> r.status,
                  rows |-> r.rows,
                  args |-> [skip |-> skip, limit |-> limit, paciente_id |-> paciente_id,
                            min_probabilidad |-> min_probabilidad]]
    /\ UNCHANGED <<ingestVars, connVars, startup, procVars, pacientes, alertas_data,
                   predicciones_data, reqs>>

----------------------------------------------------------------------------
(* Validation of skip and limit: the Query(...) declarations of the list    *)
(* endpoints of api/routers/data.py.                                        *)

\* the list endpoints considered: a general list, the list of one topic and
\* the latest measurements
LimitEndpoints ==
    {"obtener_datos_mqtt_crudos", "obtener_datos_por_topic", "obtener_ultimas_mediciones"}

\* le= of limit: Query(100, ge=1, le=500), Query(50, ge=1, le=200),
\* Query(10, ge=1, le=100)
ListCeiling == 500
TopicCeiling == 200
LatestCeiling == 100
\* the default limit of obtener_datos_por_topic
TopicLimit == 50

limit_default(endpoint) ==
    CASE endpoint = "obtener_datos_por_topic" -> TopicLimit
      [] endpoint = "obtener_ultimas_mediciones" -> LatestLimit
      [] OTHER -> DefaultLimit

limit_ceiling(endpoint) ==
    CASE endpoint = "obtener_datos_por_topic" -> TopicCeiling
      [] endpoint = "obtener_ultimas_mediciones" -> LatestCeiling
      [] OTHER -> ListCeiling

\* whether the endpoint declares a skip parameter
has_skip(endpoint) == endpoint = "obtener_datos_mqtt_crudos"

\* Query(default, ge=ge): the value the handler gets, and whether the
\* request passes validation
QueryGe(given, default, ge) ==
    LET v == IF given = {} THEN default ELSE CHOOSE x \in given : TRUE
    IN  [ok |-> v >= ge, value |-> v]

\* a declaration whose upper bound is not enforced
QueryGeLeOpen(given, default, ge, le) ==
    LET v == IF given = {} THEN default ELSE CHOOSE x \in given : TRUE
    IN  [ok |-> v >= ge, value |-> v]

\* Query(default, ge=ge, le=le)
QueryGeLe(given, default, ge, le) ==
    LET v == IF given = {} THEN default ELSE CHOOSE x \in given : TRUE
    IN  [ok |-> v >= ge /\ v <= le, value |-> v]

\* obtener_datos_por_topic(topic, limit): every answer the query can give
obtener_datos_por_topic(topic, limit, raw) ==
    {LET page == offset_limit(q, 0, limit)
         items == [i \in 1..Len(page) |-> RawItem(page[i])]
     IN  IF RawMQTTDataProcessedOk(items)
         THEN [status |-> 200, rows |-> items]
         ELSE [status |-> 500, rows |-> <<>>] :
        q \in order_by_desc(SelectSeq(raw, LAMBDA d : d.topic = topic))}

\* the skip and limit values that requests carry: none, and values at and
\* one beyond every bound
SkipQueryArgs == {{}, {-1}, {0}, {1}}
LimitQueryArgs ==
    {{}, {0}, {1}, {LatestCeiling}, {LatestCeiling + 1}, {TopicCeiling},
     {TopicCeiling + 1}, {ListCeiling}, {ListCeiling + 1}}

\* a GET request to a list endpoint: FastAPI validates the query parameters
\* and answers 422 without calling the handler when one is out of bounds
ListRequest ==
    /\ resp = NoResponse
    /\ \E endpoint \in LimitEndpoints, skip \in SkipQueryArgs, limit \in LimitQueryArgs :
         /\ has_skip(endpoint) \/ skip = {}
         /\ LET s == QueryGe(skip, 0, 0)
                l == QueryGeLe(limit, limit_default(endpoint), 1, limit_ceiling(endpoint))
                args == [skip |-> skip, limit |-> limit,
                         skip_value |-> s.value, limit_value |-> l.value]
            IN  IF ~s.ok \/ ~l.ok
                THEN resp' = [endpoint |-> endpoint, status |-> 422, rows |-> <<>>,
                              args |-> args]
                ELSE \E r \in CASE endpoint = "obtener_datos_mqtt_crudos" ->
                                     obtener_datos_mqtt_crudos(s.value, l.value, {}, {}, {},
                                                               raw_mqtt_data)
                                [] endpoint = "obtener_datos_por_topic" ->
                                     obtener_datos_por_topic("esp32/mediciones", l.value,
                                                             raw_mqtt_data)
                                [] OTHER ->
                                     obtener_ultimas_mediciones(l.value, mediciones_data,
                                                                pacientes) :
                       resp' = [endpoint |-> endpoint, status |-> r.status,
                                rows |-> r.rows, args |-> args]
    /\ UNCHANGED <<ingestVars, connVars, startup, procVars, pacientes, alertas_data,
                   predicciones_data, reqs>>

----------------------------------------------------------------------------
(* Launch through AsyncMQTTAPIServer.start *)

\* start(): self.running = True, then the MQTT task and the API task are
\* created and gathered on the event loop
ServerStart ==
    /\ ~launch.running
    /\ launch' = [launch EXCEPT !.running = TRUE]
    /\ UNCHANGED <<ingestVars, connVars, startup, apiVars, stdout>>

\* start_mqtt_client_async: mqtt_worker runs in a threading.Thread of its
\* own and calls start_mqtt_client there
MqttWorkerCall ==
    /\ launch.running
    /\ launch.calls["mqtt_worker"].pc = "idle"
    /\ launch' = [launch EXCEPT !.calls["mqtt_worker"] =
                      [pc |-> "loop", retry_count |-> 0, result |-> "none",
                       thread |-> "mqtt_thread"]]
    /\ UNCHANGED <<ingestVars, connVars, startup, apiVars, stdout>>

\* start_api_server_async: server.serve() is awaited on the event loop and
\* runs the startup handlers of app; startup_event is a coroutine that calls
\* start_mqtt_client directly, so the call runs on the event loop
StartupEventCall ==
    /\ launch.running
    /\ launch.calls["startup_event"].pc = "idle"
    /\ launch' = [launch EXCEPT !.calls["startup_event"] =
                      [pc |-> "loop", retry_count |-> 0, result |-> "none",
                       thread |-> "event_loop"]]
    /\ UNCHANGED <<ingestVars, connVars, startup, apiVars, stdout>>

\* one iteration of the connect/retry loop of a call in progress, on the
\* thread of that call
LaunchAttempt ==
    /\ \E c \in Callers, connected \in BOOLEAN :
         /\ launch.calls[c].pc = "loop"
         /\ LET it == start_mqtt_client_iteration(launch.calls[c].retry_count, connected)
            IN  launch' = [launch EXCEPT !.calls[c] =
                              [pc |-> it.pc, retry_count |-> it.retry_count,
                               result |-> it.result, thread |-> launch.calls[c].thread]]
    /\ UNCHANGED <<ingestVars, connVars, startup, apiVars, stdout>>

----------------------------------------------------------------------------
(* Output of mqtt/client.py.  The same handler runs with the same           *)
(* arguments under every password; stdout[p] is what the run under          *)
(* password p has printed.                                                  *)

CanPrint == \A p \in Passwords : Len(stdout[p]) < MaxLines

\* print(...) of lines that do not mention the configuration
Printed(lines) == stdout' = [p \in Passwords |-> stdout[p] \o lines]

\* one iteration of the loop of start_mqtt_client
PrintStartAttempt ==
    /\ CanPrint
    /\ \E count \in {0, max_retries - 1}, connected \in BOOLEAN :
         Printed(start_mqtt_client_lines(count, connected))
    /\ UNCHANGED <<ingestVars, connVars, startup, apiVars, launch>>

PrintOnConnect ==
    /\ CanPrint
    /\ \E rc \in ConnackCodes, ok \in [1..Len(TOPICS) -> BOOLEAN] :
         Printed(on_connect_lines(rc, ok))
    /\ UNCHANGED <<ingestVars, connVars, startup, apiVars, launch>>

PrintOnDisconnect ==
    /\ CanPrint
    /\ \E rc \in {0, 1} : Printed(on_disconnect_lines(rc))
    /\ UNCHANGED <<ingestVars, connVars, startup, apiVars, launch>>

PrintOnMessage ==
    /\ CanPrint
    /\ \E topic \in MsgTopics, payload \in {PayloadCompact, PayloadText, PayloadBadUtf8},
          response \in Responses, rawSt \in RawStoreOutcomes :
         LET msg == [topic |-> topic, payload |-> payload]
             r == on_message(msg, response, rawSt, "ok", <<>>, <<>>, now)
         IN  Printed(on_message_lines(msg, response, rawSt, r))
    /\ UNCHANGED <<ingestVars, connVars, startup, apiVars, launch>>

\* the paho client reports an event to on_log; what it reports of the
\* credentials is computed from the password of the run
PrintOnLog ==
    /\ CanPrint
    /\ \E event \in PahoEvents :
         stdout' = [p \in Passwords |->
                       Append(stdout[p], on_log(paho_log(event, MQTT_USERNAME, p)))]
    /\ UNCHANGED <<ingestVars, connVars, startup, apiVars, launch>>

PrintOnSubscribe ==
    /\ CanPrint
    /\ \E granted_qos \in {0, 1} : Printed(<<on_subscribe(granted_qos)>>)
    /\ UNCHANGED <<ingestVars, connVars, startup, apiVars, launch>>

PrintPublish ==
    /\ CanPrint
    /\ \E topic \in MsgTopics, message \in PubMessages, sent \in BOOLEAN :
         Printed(publish_lines(topic, message, publish(topic, message, now), sent))
    /\ UNCHANGED <<ingestVars, connVars, startup, apiVars, launch>>

----------------------------------------------------------------------------
(* Diagnostics over the raw messages: obtener_topics_desconocidos and       *)
(* obtener_analisis_mqtt of api/routers/data.py.                            *)

\* known_topics of obtener_topics_desconocidos
known_topics ==
    <<"medical/mediciones", "medical/alertas", "medical/predicciones",
      "esp32/sensors", "esp32/alarms", "system/health">>

\* the topics on_message has a typed handler for (client.py, line 111)
DispatcherTopics == {"esp32/mediciones"}

\* the elements of a sequence
Range(q) == {q[i] : i \in 1..Len(q)}

\* the topic column of the stored raw rows
StoredTopics(raw) == {raw[i].topic : i \in 1..Len(raw)}

\* .distinct().all(): every element of S once, in an order the query does
\* not fix
Distinct(S) ==
    {q \in [1..Cardinality(S) -> S] :
        \A i, j \in 1..Cardinality(S) : q[i] = q[j] => i = j}

\* obtener_topics_desconocidos(): the stored topics that are not in
\* known_topics
obtener_topics_desconocidos(raw) ==
    {[status |-> 200, unknown_topics |-> q, known_topics |-> known_topics] :
        q \in Distinct({t \in StoredTopics(raw) : t \notin Range(known_topics)})}

TopicsDesconocidos ==
    /\ resp = NoResponse
    /\ \E r \in obtener_topics_desconocidos(raw_mqtt_data) :
         resp' = [endpoint |-> "obtener_topics_desconocidos", status |-> r.status,
                  rows |-> r.unknown_topics,
                  args |-> [known_topics |-> r.known_topics,
                            stored |-> StoredTopics(raw_mqtt_data)]]
    /\ UNCHANGED <<ingestVars, connVars, startup, procVars, pacientes, alertas_data,
                   predicciones_data, reqs>>

\* timedelta(hours=24), in ticks of the clock
Hours24 == 24

\* GROUP BY topic with count(id): one [topic, count] for every stored topic
group_by_topic(raw) ==
    {[topic |-> t, count |-> Cardinality({i \in 1..Len(raw) : raw[i].topic = t})] :
        t \in StoredTopics(raw)}

\* max(topics_stats, key=lambda x: x.count).topic if topics_stats else None:
\* the first element whose count no other exceeds; {} for None
most_active_topic(topics_stats) ==
    IF topics_stats = <<>> THEN {}
    ELSE LET best == CHOOSE i \in 1..Len(topics_stats) :
                        /\ \A j \in 1..Len(topics_stats) :
                               topics_stats[j].count <= topics_stats[i].count
                        /\ \A j \in 1..(i - 1) :
                               topics_stats[j].count < topics_stats[i].count
         IN  {topics_stats[best].topic}

\* obtener_analisis_mqtt runs four queries, each of which reads the rows
\* committed when it runs; the network loop can commit a message between two
\* of them.  First query: topics_stats
AnalisisTopicsStats ==
    /\ resp = NoResponse
    /\ \E q \in Distinct(group_by_topic(raw_mqtt_data)) :
         resp' = [endpoint |-> "obtener_analisis_mqtt", status |-> 0, rows |-> <<>>,
                  args |-> [pc |-> "topics_stats", topics_stats |-> q,
                            recent_activity |-> 0, unique_topics |-> <<>>,
                            total_messages |-> 0, most_active_topic |-> {}]]
    /\ UNCHANGED <<ingestVars, connVars, startup, procVars, pacientes, alertas_data,
                   predicciones_data, reqs>>

\* second query: recent_activity
AnalisisRecentActivity ==
    /\ resp.endpoint = "obtener_analisis_mqtt"
    /\ resp.args.pc = "topics_stats"
    /\ resp' = [resp EXCEPT !.args.pc = "recent_activity",
                            !.args.recent_activity =
                                Cardinality({i \in 1..Len(raw_mqtt_data) :
                                    Timestamp(raw_mqtt_data[i]) >= now - Hours24})]
    /\ UNCHANGED <<ingestVars, connVars, startup, procVars, pacientes, alertas_data,
                   predicciones_data, reqs>>

\* third query: unique_topics
AnalisisUniqueTopics ==
    /\ resp.endpoint = "obtener_analisis_mqtt"
    /\ resp.args.pc = "recent_activity"
    /\ \E q \in Distinct(StoredTopics(raw_mqtt_data)) :
         resp' = [resp EXCEPT !.args.pc = "unique_topics", !.args.unique_topics = q]
    /\ UNCHANGED <<ingestVars, connVars, startup, procVars, pacientes, alertas_data,
                   predicciones_data, reqs>>

\* the return statement: the fourth query, count(), and the response
AnalisisReturn ==
    /\ resp.endpoint = "obtener_analisis_mqtt"
    /\ resp.args.pc = "unique_topics"
    /\ resp' = [resp EXCEPT !.status = 200,
                            !.args.pc = "returned",
                            !.args.total_messages = Len(raw_mqtt_data),
                            !.args.most_active_topic =
                                most_active_topic(resp.args.topics_stats)]
    /\ UNCHANGED <<ingestVars, connVars, startup, procVars, pacientes, alertas_data,
                   predicciones_data, reqs>>

----------------------------------------------------------------------------
(* Specifications *)

NextConn ==
    StartAttempt \/ OnConnect \/ OnDisconnect \/ Publish \/ StartupEvent \/ MqttWorker
NextIngest == OnMessage
Next == NextConn \/ NextIngest

\* the whole service, from import; the properties below are stated for its
\* two components, which share only the clock
Spec == Init /\ [][Next]_vars
\* the connection manager and publish
SpecConn == Init /\ [][NextConn]_vars
\* ingestion, once the client runs
SpecIngest == InitRunning /\ [][NextIngest]_vars

\* the raw-message queries over an ingesting service
NextRaw ==
    \/ Ingest(MsgTopics, {PayloadCompact, PayloadScalar}, {IdentifiedResponse("PAC001")})
    \/ RawPages
SpecRaw == InitRunning /\ [][NextRaw]_vars

\* the measurement reads over an ingesting service with a registered patient
NextMediciones ==
    \/ Ingest({"esp32/mediciones"}, MedPayloads,
              {IdentifiedResponse("PAC001"), IdentifiedResponse("PAC002")})
    \/ MedicionesRead
SpecMediciones == InitRegistered /\ [][NextMediciones]_vars

\* the alert list over a store that receives alerts
NextAlertas == SaveAlertas(Tipos, TimestampKeys) \/ ListarAlertas
SpecAlertas == InitRegistered /\ [][NextAlertas]_vars

\* every operation that writes, over a store with a registered patient
NextStore ==
    \/ Ingest({"esp32/mediciones"}, {PayloadCompact}, {IdentifiedResponse("PAC001")})
    \/ ActualizarPaciente
    \/ SaveAlertas({TipoRate}, {{ClockStart}})
    \/ SavePredicciones
SpecStore == InitRegistered /\ [][NextStore]_vars

\* the patient endpoints, requests interleaving at their database operations
NextPatients ==
    \/ \E r \in Requests : CrearPacienteCheck(r)
    \/ \E r \in Requests : CrearPacienteInsert(r)
    \/ ActualizarPaciente
    \/ PatientRead
    \/ ListarPacientes
SpecPatients == InitRunning /\ [][NextPatients]_vars

\* what the client module prints, under every password
NextOutput ==
    \/ PrintStartAttempt
    \/ PrintOnConnect
    \/ PrintOnDisconnect
    \/ PrintOnMessage
    \/ PrintOnLog
    \/ PrintOnSubscribe
    \/ PrintPublish
SpecOutput == Init /\ [][NextOutput]_vars

\* the launch through AsyncMQTTAPIServer.start
NextLaunch ==
    ServerStart \/ MqttWorkerCall \/ StartupEventCall \/ LaunchAttempt
SpecLaunch == Init /\ [][NextLaunch]_vars

\* the diagnostics over an ingesting service
NextDiagnostics ==
    \/ Ingest(MsgTopics, {PayloadCompact}, {IdentifiedResponse("PAC001")})
    \/ TopicsDesconocidos
    \/ AnalisisTopicsStats
    \/ AnalisisRecentActivity
    \/ AnalisisUniqueTopics
    \/ AnalisisReturn
SpecDiagnostics == InitRunning /\ [][NextDiagnostics]_vars

\* the lists filtered by patient, over a store that receives alerts and
\* predictions
NextFilters ==
    \/ SaveAlertas({TipoRate}, {{ClockStart}})
    \/ SavePredicciones
    \/ ListarAlertasCon(PacienteIdFilters, {{}}, {{}})
    \/ ListarPredicciones
SpecFilters == InitRegistered /\ [][NextFilters]_vars

\* the validated list requests over an ingesting service
NextLimits ==
    \/ Ingest(MsgTopics, {PayloadCompact}, {IdentifiedResponse("PAC001")})
    \/ ListRequest
SpecLimits == InitRegistered /\ [][NextLimits]_vars

----------------------------------------------------------------------------
(* Properties of ingestion (SpecIngest) *)

\* the text on_message received, when the bytes decode
ReceivedText == decode_utf8(last.payload).text
\* whether the received bytes are UTF-8 text that json.loads accepts
ReceivedIsJson ==
    ~decode_utf8(last.payload).raised /\ json_loads(ReceivedText).ok
\* the decoded payload
Decoded == json_loads(ReceivedText).value
ReceivedIsJsonObject == ReceivedIsJson /\ Decoded.t = "dict"
\* rows added by the last invocation
RawAdded == Len(raw_mqtt_data) - last.raw_before
MedAdded == Len(mediciones_data) - last.med_before
NewRaw == raw_mqtt_data[Len(raw_mqtt_data)]
NewMed == mediciones_data[Len(mediciones_data)]

\* C1: every invocation of on_message calls save_raw_mqtt_data exactly once,
\* whatever the topic, the payload bytes and the identifier lookup; when the
\* store accepts the write the raw table grows by exactly one row, and it
\* never grows by more.
C1_ExactlyOneRawInsert ==
    last.n > 0 =>
        /\ last.raw_calls = 1
        /\ RawAdded = (IF last.rawSt = "ok" THEN 1 ELSE 0)
        /\ last.rawSt = "ok" => NewRaw.topic = last.topic

\* C1 witness: an undecodable payload was saved through the outer handler
C1_Witness ==
    /\ last.n > 0
    /\ last.payload_type = "undecodable"
    /\ last.rawSt = "ok"
    /\ RawAdded = 1

\* the measurement fields of the new row equal those of the decoded payload
\* (None for an absent key, False for an absent finger_detected)
MedFieldsMatch ==
    /\ NewMed.sensor = dict_get(Decoded, "sensor", PyNone)
    /\ NewMed.heart_rate = dict_get(Decoded, "heart_rate", PyNone)
    /\ NewMed.spo2 = dict_get(Decoded, "spo2", PyNone)
    /\ NewMed.temperature = dict_get(Decoded, "temperature", PyNone)
    /\ NewMed.finger_detected = dict_get(Decoded, "finger_detected", PyBool(FALSE))

\* C2 as stated: every valid JSON object on esp32/mediciones, the store
\* accepting both writes, gives exactly one Measurement row and one
\* RawMessage row, the row's fields equal to the payload's.
C2_Original ==
    (last.n > 0 /\ last.topic = "esp32/mediciones" /\ ReceivedIsJsonObject
        /\ last.rawSt = "ok" /\ last.medSt = "ok") =>
        /\ MedAdded = 1
        /\ RawAdded = 1
        /\ MedFieldsMatch

\* C2 amended: the same, when moreover the identifier lookup of that
\* invocation returned a non-empty identifier.
C2_TypedRowWhenIdentified ==
    (last.n > 0 /\ last.topic = "esp32/mediciones" /\ ReceivedIsJsonObject
        /\ last.rawSt = "ok" /\ last.medSt = "ok" /\ Truthy(last.identificador)) =>
        /\ MedAdded = 1
        /\ RawAdded = 1
        /\ MedFieldsMatch

\* C2 witness: a full measurement was ingested for an identified patient
C2_Witness ==
    /\ last.n > 0
    /\ last.topic = "esp32/mediciones"
    /\ last.payload = PayloadCompact
    /\ Truthy(last.identificador)
    /\ last.rawSt = "ok" /\ last.medSt = "ok"
    /\ MedAdded = 1
    /\ NewMed.heart_rate = PyInt(72) /\ NewMed.spo2 = PyInt(98)

\* C3 as stated: a payload that is not valid JSON, on any topic, the store
\* accepting the write, gives exactly one RawMessage row whose payload is
\* the received payload unchanged, and no Measurement row.
C3_NonJsonVerbatim ==
    (last.n > 0 /\ ~ReceivedIsJson /\ last.rawSt = "ok") =>
        /\ RawAdded = 1
        /\ NewRaw.payload = last.payload
        /\ MedAdded = 0

\* C4 as stated: for a payload that is valid JSON the stored raw payload
\* equals the received string.
C4_JsonVerbatim ==
    (last.n > 0 /\ ReceivedIsJson /\ last.rawSt = "ok") =>
        /\ RawAdded = 1
        /\ NewRaw.payload = ReceivedText

\* C5 as stated: when the payload of a stored Measurement carries a
\* timestamp key holding a valid ISO-8601 string, the row's timestamp is
\* that parsed value.
C5_DeviceTimestampKept ==
    (last.n > 0 /\ last.topic = "esp32/mediciones" /\ ReceivedIsJsonObject
        /\ MedAdded = 1
        /\ dict_get(Decoded, "timestamp", PyNone).t = "str"
        /\ IsIso(dict_get(Decoded, "timestamp", PyNone).s)) =>
        NewMed.timestamp =
            PyDatetime(fromisoformat(dict_get(Decoded, "timestamp", PyNone).s))

C8_RaiseImpliesNoRow ==
    (last.n > 0 /\ last.typed = "called" /\ last.med_raised) => MedAdded = 0

\* C9: on_message never lets an exception through to the network loop, so
\* the loop keeps running; a message that follows a failed one is processed
\* and gets its own raw insert.
C9_NeverPropagates ==
    last.n > 0 =>
        /\ ~last.propagated
        /\ loop_running
        /\ last.prev_failed =>
              /\ last.raw_calls = 1
              /\ last.rawSt = "ok" => RawAdded = 1

\* C9 witness: after a message whose processing failed, the next message
\* was processed and its raw row stored
C9_Witness ==
    /\ last.n >= 2
    /\ last.prev_failed
    /\ last.rawSt = "ok"
    /\ RawAdded = 1
    /\ loop_running

----------------------------------------------------------------------------
(* Properties of the connection manager and publish (SpecConn) *)

\* C6 as stated: parse_timestamp returns without raising and leaves a
\* datetime under the timestamp key, for every input mapping.
C6_TimestampAlwaysDatetime ==
    lastPub.n > 0 =>
        /\ ~lastPub.raised
        /\ dict_get(lastPub.parsed, "timestamp", PyNone).t = "datetime"

\* C10: start_mqtt_client makes at most 5 connect attempts; it returns True
\* at the first attempt that succeeds and False after the 5th failure; the
\* k-th failure, k = 1..4, is followed by a sleep of 5*k seconds and the 5th
\* by none; until it returns, the next attempt can always be made.
C10_BoundedRetry ==
    /\ connects <= 5
    /\ Len(slept) = (IF retry_count < 5 THEN retry_count ELSE 4)
    /\ \A k \in 1..Len(slept) : slept[k] = 5 * k
    /\ result = "True" => pc = "returned" /\ connects = retry_count + 1
    /\ result = "False" => pc = "returned" /\ retry_count = 5 /\ connects = 5
    /\ result = "none" => /\ pc = "loop"
                          /\ connects = retry_count
                          /\ ENABLED StartAttempt

\* C10 witness: all five attempts failed
C10_Witness ==
    /\ result = "False"
    /\ connects = 5
    /\ slept = <<5, 10, 15, 20>>

----------------------------------------------------------------------------
(* Properties of startup (SpecConn) *)

\* C11: when start_mqtt_client returned False, the caller that started it
\* (startup_event or mqtt_worker) does not go on serving and does not report
\* the client as started.
C11_ExhaustionIsFatal ==
    (result = "False" /\ startup.caller # "none") =>
        /\ ~startup.serving
        /\ ~startup.reported_started

\* the subscribes issued so far cover every topic of TOPICS
SubscribedAll ==
    \A i \in 1..Len(TOPICS) :
        \E j \in 1..Len(subscribes) : subscribes[j].topic = TOPICS[i]

\* C12: start_mqtt_client has returned True only when the broker has accepted
\* the connection (rc = 0) and a subscribe has been issued for every topic of
\* TOPICS.
C12_StartedOnlyWhenSubscribed ==
    result = "True" => (session = "connected" /\ SubscribedAll)

----------------------------------------------------------------------------
(* Unknown topics (SpecIngest) *)

\* C13: a message on a topic other than esp32/mediciones is handled without
\* error: on_message lets no exception through, calls the raw save once, adds
\* no Measurement row, and the raw table gains exactly the row of that
\* message whenever the store accepts the write.
C13_UnknownTopicStoredRawOnly ==
    (last.n > 0 /\ last.topic # "esp32/mediciones") =>
        /\ ~last.propagated
        /\ last.raw_calls = 1
        /\ last.typed = "none"
        /\ MedAdded = 0
        /\ last.rawSt = "ok" => (RawAdded = 1 /\ NewRaw.topic = last.topic)

\* C13 witness: a JSON measurement of an identified patient arrived on
\* esp32/sensors and only its raw row was stored
C13_Witness ==
    /\ last.n > 0
    /\ last.topic = "esp32/sensors"
    /\ ReceivedIsJsonObject
    /\ Truthy(last.identificador)
    /\ last.rawSt = "ok"
    /\ RawAdded = 1
    /\ MedAdded = 0

----------------------------------------------------------------------------
(* Properties of the patient endpoints (SpecPatients) *)

\* the requests that ended with the given status
DoneWith(st) == {r \in Requests : reqs[r].pc = "done" /\ reqs[r].status = st}

\* C14: in every reachable state no two Patient rows carry the same
\* identificador; of the crear_paciente requests for one identificador at
\* most one succeeds, and a request that ended with an error added no row
\* (the table holds exactly one row per successful request).
C14_UniqueIdentificador ==
    /\ \A i, j \in 1..Len(pacientes) :
         pacientes[i].identificador = pacientes[j].identificador => i = j
    /\ \A r1, r2 \in DoneWith(201) :
         reqs[r1].identificador = reqs[r2].identificador => r1 = r2
    /\ \A r \in Requests : (reqs[r].pc = "done" /\ reqs[r].status # 201) => ~reqs[r].added
    /\ Len(pacientes) = Cardinality(DoneWith(201))

\* C14 witness: two requests for the same identificador both passed the
\* existence check; one created the row, the other ended with 400
C14_Witness ==
    \E r1, r2 \in Requests :
        /\ r1 # r2
        /\ reqs[r1].identificador = reqs[r2].identificador
        /\ reqs[r1].checked /\ reqs[r2].checked
        /\ reqs[r1].pc = "done" /\ reqs[r1].status = 201
        /\ reqs[r2].pc = "done" /\ reqs[r2].status = 400
        /\ Len(get_paciente_by_identifier(reqs[r1].identificador, pacientes)) = 1

\* C15: a patient-scoped read answers 404 exactly when no Patient row has
\* the requested id, and answers with success (200) whenever the row exists.
C15_NotFoundExactlyWhenMissing ==
    resp.endpoint \in PatientReads =>
        /\ resp.status = 404 <=> Len(get_paciente(resp.args.paciente_id, pacientes)) = 0
        /\ Len(get_paciente(resp.args.paciente_id, pacientes)) > 0 => resp.status = 200

\* C17: a list operation answers with success and its rows are in
\* non-increasing timestamp order (here for listar_pacientes, whose rows
\* carry fecha_registro).
C17_ListsNewestFirst ==
    resp.endpoint = "listar_pacientes" =>
        /\ resp.status = 200
        /\ \A i \in 1..(Len(resp.rows) - 1) :
             resp.rows[i].fecha_registro >= resp.rows[i + 1].fecha_registro

----------------------------------------------------------------------------
(* Properties of the raw-message queries (SpecRaw) *)

\* the ids of the rows of a page
Ids(rows) == {rows[i].id : i \in 1..Len(rows)}
IdSeq(rows) == [i \in 1..Len(rows) |-> rows[i].id]

\* C16: when at least skip + 2 * limit rows match the filters, the page at
\* skip and the page at skip + limit, both answered from the unchanged
\* store, share no row, and one after the other are rows skip + 1 ..
\* skip + 2 * limit of a descending-timestamp order of the matching rows.
C16_PagesDisjointContiguous ==
    (/\ resp.endpoint = "obtener_datos_mqtt_crudos"
     /\ Len(resp.args.matching) >= resp.args.skip + 2 * resp.args.limit
     /\ resp.status = 200 /\ resp.args.next_status = 200) =>
        /\ Ids(resp.rows) \cap Ids(resp.args.next_rows) = {}
        /\ \E q \in order_by_desc(resp.args.matching) :
             IdSeq(resp.rows) \o IdSeq(resp.args.next_rows) =
                 IdSeq(SubSeq(q, resp.args.skip + 1,
                              resp.args.skip + 2 * resp.args.limit))

----------------------------------------------------------------------------
(* Properties of the measurement reads (SpecMediciones) *)

\* the value a read gives for a stored value v with validity range lo..hi:
\* v itself inside the range, null outside
ReadOf(v, lo, hi) ==
    IF v.t = "int" /\ (v.n < lo \/ v.n > hi) THEN PyNone ELSE v

\* C18: a measurement read of a store that holds measurements of the
\* registered patient succeeds, and every row it returns carries the stored
\* heart_rate, spo2 and temperature when they lie in [30,250], [70,100] and
\* [30,45] (boundaries included) and null in their place when they lie
\* outside.
C18_RangeNulledOnRead ==
    (resp.endpoint \in MedicionReads /\ resp.args.stored > 0) =>
        /\ resp.status = 200
        /\ \A i \in 1..Len(resp.rows) :
             LET item == resp.rows[i]
                 x == mediciones_data[item.id]
             IN  /\ item.heart_rate = ReadOf(x.heart_rate, 30, 250)
                 /\ item.spo2 = ReadOf(x.spo2, 70, 100)
                 /\ item.temperature = ReadOf(x.temperature, 30, 45)

----------------------------------------------------------------------------
(* Properties of the alert list (SpecAlertas) *)

\* the request named a tipo and both ends of the window
AlertQueryOfClaim ==
    /\ resp.endpoint = "listar_alertas"
    /\ resp.args.tipo # {} /\ resp.args.start_date # {} /\ resp.args.end_date # {}

\* every returned row lies in the window of the request
InWindow ==
    \A i \in 1..Len(resp.rows) :
        /\ \A x \in resp.args.start_date : Timestamp(resp.rows[i]) >= x
        /\ \A x \in resp.args.end_date : Timestamp(resp.rows[i]) <= x

\* text holds pattern as a run of consecutive characters, letters compared
\* without regard to case and "_" in pattern standing for any one character
HoldsPattern(text, pattern) ==
    \E k \in 0..(Len(text) - Len(pattern)) :
        \A j \in 1..Len(pattern) :
            pattern[j] = "_" \/ Lower(pattern[j]) = Lower(text[k + j])

----------------------------------------------------------------------------
(* Properties of the stored rows (SpecStore) *)

\* table new holds the rows of table old, unchanged and in place
Extends(new, old) ==
    /\ Len(new) >= Len(old)
    /\ \A i \in 1..Len(old) : new[i] = old[i]

\* C20: no step modifies or removes a RawMessage, Measurement, Alert or
\* Prediction row (each table keeps its rows and only grows), and no step
\* removes a Patient row or changes its id or its identificador.
C20_AppendOnly ==
    [][/\ Extends(raw_mqtt_data', raw_mqtt_data)
       /\ Extends(mediciones_data', mediciones_data)
       /\ Extends(alertas_data', alertas_data)
       /\ Extends(predicciones_data', predicciones_data)
       /\ Len(pacientes') >= Len(pacientes)
       /\ \A i \in 1..Len(pacientes) :
            /\ pacientes'[i].id = pacientes[i].id
            /\ pacientes'[i].identificador = pacientes[i].identificador]_vars

\* C20 witness: the name of the registered patient was updated in a store
\* that holds raw, measurement, alert and prediction rows
C20_Witness ==
    /\ resp.endpoint = "actualizar_paciente"
    /\ resp.status = 200
    /\ pacientes[1].nombre = "Luis"
    /\ pacientes[1].identificador = "PAC001"
    /\ Len(raw_mqtt_data) > 0
    /\ Len(mediciones_data) > 0
    /\ Len(alertas_data) > 0
    /\ Len(predicciones_data) > 0

----------------------------------------------------------------------------
(* Properties of the output (SpecOutput) *)

\* C21: the password is never printed in plaintext: two runs that see the
\* same events and whose passwords have the same length have printed the
\* same lines, whatever the characters of the passwords are; the output
\* depends on the password through its length only
C21_OutputIndependentOfPassword ==
    \A p \in Passwords, q \in Passwords :
        Len(p) = Len(q) => stdout[p] = stdout[q]

\* the paho client has reported its CONNECT to on_log after the credentials
\* line, and the outputs under two passwords differ in the length of the mask
C21_Witness ==
    /\ \E i \in 2..Len(stdout[<<"a">>]) :
           /\ stdout[<<"a">>][i].fmt = "MQTT Log: {}"
           /\ stdout[<<"a">>][i].args[1] = "Sending CONNECT"
    /\ stdout[<<"a">>] = stdout[<<"b">>]
    /\ stdout[<<"a">>][1] # stdout[<<"a", "b">>][1]

----------------------------------------------------------------------------
(* Properties of the diagnostics (SpecDiagnostics) *)

\* C22: the unknown topics reported are exactly the distinct stored topics
\* that the ingestion dispatcher has no handler for; esp32/mediciones is
\* never among them
C22_UnknownAreUnhandled ==
    resp.endpoint = "obtener_topics_desconocidos" =>
        /\ Range(resp.rows) = resp.args.stored \ DispatcherTopics
        /\ Cardinality(Range(resp.rows)) = Len(resp.rows)
        /\ "esp32/mediciones" \notin Range(resp.rows)

\* the sum of the counts of topics_stats
RECURSIVE SumCounts(_)
SumCounts(q) == IF q = <<>> THEN 0 ELSE Head(q).count + SumCounts(Tail(q))

\* C30: every response of obtener_analisis_mqtt is consistent in itself, also
\* when messages are ingested while it is computed: total_messages is the sum
\* of messages_by_topic, unique_topics are the keys of messages_by_topic, and
\* most_active_topic is a topic of maximal count, null exactly when no
\* message is counted
C30_AnalysisConsistent ==
    (resp.endpoint = "obtener_analisis_mqtt" /\ resp.status = 200) =>
        LET a == resp.args
            keys == {t.topic : t \in Range(a.topics_stats)}
        IN  /\ a.total_messages = SumCounts(a.topics_stats)
            /\ Range(a.unique_topics) = keys
            /\ a.most_active_topic = {} <=> a.total_messages = 0
            /\ \A m \in a.most_active_topic :
                   \E t \in Range(a.topics_stats) :
                       /\ t.topic = m
                       /\ \A u \in Range(a.topics_stats) : u.count <= t.count

----------------------------------------------------------------------------
(* Raw row and typed row of one message (SpecIngest) *)

\* C25: also when the writes of the store fail independently, every
\* measurement row has the raw row of its message: there are never more
\* measurement rows than raw rows of topic esp32/mediciones, and on_message
\* attempts the typed write only after the raw write was committed
C25_MeasurementHasRaw ==
    /\ Len(mediciones_data) <=
           Cardinality({i \in 1..Len(raw_mqtt_data) :
                           raw_mqtt_data[i].topic = "esp32/mediciones"})
    /\ (last.n > 0 /\ last.typed = "called") => (last.rawSt = "ok" /\ RawAdded = 1)

\* C26: a measurement row created by on_message carries the identifier that
\* get_paciente_id returned in that invocation, whatever paciente_identificador
\* the payload holds; when the lookup gives no identifier (an error, a status
\* other than 200, an empty value) no measurement row is created and the raw
\* row is stored all the same
C26_IdentifierFromLookup ==
    last.n > 0 =>
        /\ MedAdded = 1 => NewMed.paciente_identificador = last.identificador
        /\ ~Truthy(last.identificador) =>
              /\ MedAdded = 0
              /\ last.rawSt = "ok" => (RawAdded = 1 /\ NewRaw.topic = last.topic)

\* C26 witness: a payload with a paciente_identificador of its own was stored
\* under the identifier of the lookup
C26_Witness ==
    /\ last.n > 0
    /\ last.payload = PayloadOwnIdentifier
    /\ MedAdded = 1
    /\ NewMed.paciente_identificador = PyStr("PAC001")
    /\ dict_get(Decoded, "paciente_identificador", PyNone) = PyStr("OTRO")

----------------------------------------------------------------------------
(* Properties of publish and of the callbacks (SpecConn) *)

\* C27: publish(topic, message), whatever the timestamp of the mapping is
\* (absent, an ISO string, a string that does not parse, a value that is no
\* string), hands the broker client exactly one JSON text that holds a
\* timestamp field, and does not raise
C27_PublishHandsOneMessage ==
    lastPub.n > 0 =>
        /\ ~lastPub.raised
        /\ lastPub.called
        /\ Len(outbox) = lastPub.n
        /\ json_loads(outbox[Len(outbox)].payload).ok
        /\ dict_has(json_loads(outbox[Len(outbox)].payload).value, "timestamp")

\* the topics of the subscribe calls from position from + 1 on
SubscribedSince(from, subs) == [i \in 1..(Len(subs) - from) |-> subs[from + i].topic]

\* C28: every connection acknowledgement with rc = 0, the first and every
\* later one, issues a subscribe for every topic of TOPICS, in order, a failed
\* subscribe not keeping the following ones from being issued; an
\* acknowledgement with another code issues none; on a disconnection the
\* client's code connects and subscribes nothing
C28_SubscribeOnEveryAccept ==
    [][/\ (acks' = acks + 1 /\ session' = "connected") =>
              /\ Len(subscribes') = Len(subscribes) + Len(TOPICS)
              /\ SubscribedSince(Len(subscribes), subscribes') = TOPICS
              /\ SubSeq(subscribes', 1, Len(subscribes)) = subscribes
       /\ (acks' = acks + 1 /\ session' = "refused") => subscribes' = subscribes
       /\ (session = "connected" /\ session' = "disconnected") =>
              UNCHANGED <<subscribes, acks, connects, pc, retry_count, loop_running>>
      ]_vars

\* C28 witness: the broker accepted a reconnection, and the subscribe of the
\* first topic failed in it while the second was issued
C28_Witness ==
    /\ acks = 2
    /\ session = "connected"
    /\ Len(subscribes) = 2 * Len(TOPICS)
    /\ ~subscribes[Len(TOPICS) + 1].ok
    /\ subscribes[Len(TOPICS) + 2].topic = TOPICS[2]

----------------------------------------------------------------------------
(* Properties of the launch (SpecLaunch) *)

\* C24: under AsyncMQTTAPIServer.start, start_mqtt_client is called at most
\* once in the process, so that there is one connect sequence and one network
\* loop, and its connect/retry loop never runs on the event loop that serves
\* the requests
C24_StartedOnceOffTheEventLoop ==
    /\ Cardinality({c \in Callers : launch.calls[c].pc # "idle"}) <= 1
    /\ \A c \in Callers : launch.calls[c].thread # "event_loop"

----------------------------------------------------------------------------
(* Properties of the filtered lists (SpecFilters) *)

\* C29: when a request of listar_alertas or listar_predicciones carries
\* paciente_id, whatever integer it is, 0 included, every row returned has
\* that paciente_id; when a request of listar_predicciones carries
\* min_probabilidad, 0.0 included, every row returned has a probabilidad that
\* is not null and is at least min_probabilidad
C29_SuppliedFiltersApply ==
    (resp.endpoint \in {"listar_alertas", "listar_predicciones"} /\ resp.status = 200) =>
        /\ \A x \in resp.args.paciente_id :
               \A i \in 1..Len(resp.rows) : resp.rows[i].paciente_id = x
        /\ resp.endpoint = "listar_predicciones" =>
               \A x \in resp.args.min_probabilidad :
                   \A i \in 1..Len(resp.rows) : resp.rows[i].probabilidad >= x

----------------------------------------------------------------------------
(* Properties of the validated list requests (SpecLimits) *)

\* the value of an optional parameter that was sent
Sent(given) == CHOOSE x \in given : TRUE

\* the bounds as C23 states them: a default of 100, a ceiling of 200 for the
\* list of one topic and of 500 elsewhere
C23_Original ==
    resp.endpoint \in LimitEndpoints =>
        LET a == resp.args
            ceiling == IF resp.endpoint = "obtener_datos_por_topic"
                       THEN TopicCeiling ELSE ListCeiling
        IN  /\ resp.status # 422 =>
                  /\ a.skip_value >= 0
                  /\ a.limit_value >= 1 /\ a.limit_value <= ceiling
                  /\ a.limit = {} => a.limit_value = DefaultLimit
            /\ (a.skip # {} /\ Sent(a.skip) < 0) => resp.status = 422
            /\ (a.limit # {} /\ (Sent(a.limit) < 1 \/ Sent(a.limit) > ceiling)) =>
                  resp.status = 422
            /\ Len(resp.rows) <= a.limit_value

\* C23: every list endpoint accepts a request exactly when its skip, if the
\* endpoint takes one, is at least 0 and its limit is between 1 and the
\* ceiling of the endpoint: 500, 200 for the list of one topic, 100 for the
\* latest measurements; a request without limit gets the default of the
\* endpoint: 100, 50 for the list of one topic, 10 for the latest
\* measurements; a rejected request is answered 422 with no row and any
\* request leaves the store as it was; no answer holds more than limit rows
C23_LimitsEnforced ==
    [][(resp' # resp /\ resp'.endpoint \in LimitEndpoints) =>
          LET a == resp'.args
              ceiling == limit_ceiling(resp'.endpoint)
          IN  /\ resp'.status = 422 <=>
                     \/ a.skip # {} /\ Sent(a.skip) < 0
                     \/ a.limit # {} /\ (Sent(a.limit) < 1 \/ Sent(a.limit) > ceiling)
              /\ a.limit = {} => a.limit_value = limit_default(resp'.endpoint)
              /\ a.limit # {} => a.limit_value = Sent(a.limit)
              /\ resp'.status = 422 => resp'.rows = <<>>
              /\ Len(resp'.rows) <= a.limit_value
              /\ UNCHANGED <<raw_mqtt_data, mediciones_data, pacientes, alertas_data,
                             predicciones_data>>
      ]_vars

\* C23 witness: a limit of 1 cut the list of one topic short of the two
\* stored rows of that topic
C23_Witness ==
    /\ resp.endpoint = "obtener_datos_por_topic"
    /\ resp.status = 200
    /\ resp.args.limit = {1}
    /\ Len(resp.rows) = 1
    /\ Cardinality({i \in 1..Len(raw_mqtt_data) :
                       raw_mqtt_data[i].topic = "esp32/mediciones"}) = 2

====
